---- MODULE Spec2Model ----
(***************************************************************************)
(* A model of office-toolbox's util module: the manifest parser            *)
(* (parseManifest, isGuid), the manifest registration store (sideloading   *)
(* directory of hard links, or the registry's WEF\Developer key) and the   *)
(* template generator (generateTemplateFile).                              *)
(*                                                                         *)
(* Text is modelled as a sequence of one-character strings, so that the    *)
(* regular expressions of the source are evaluated character by character. *)
(***************************************************************************)
EXTENDS Integers, Sequences, FiniteSets, TLC

VARIABLES
    doc,        \* parseManifest: the manifest document handed to the parser
    presult,    \* parseManifest: how the returned promise settled
    platform,   \* process.platform: "win32" or "darwin"
    fsys,       \* the file system: real path -> inode, or NoFile
    dirs,       \* the sideloading directories that exist
    registry,   \* HKCU:\Software\Microsoft\Office\16.0 and its WEF\Developer values
    last,       \* the last store operation: its arguments, result and the state before it
    cwd,        \* process.cwd(): file name -> content, or NoContent
    part,       \* the XML part of the bundled template archive
    ginput,     \* the application, type, id and version handed to generateTemplateFile
    gres,       \* the last call of generateTemplateFile: its result and the files before it
    written,    \* the files generateTemplateFile has written, in order
    shells,     \* querySideloadingRegistry: the shells created, each running or disposed
    ps,         \* querySideloadingRegistry: the shell the variable ps holds
    query,      \* the registry operation in progress: its position, commands and promise
    side,       \* sideloadManifest in progress: its position, steps and promise
    cli,        \* the command of the command line in progress: its position and its log
    contents    \* the manifest files: inode -> the document the file holds

vars == <<doc, presult, platform, fsys, dirs, registry, last, cwd, part, ginput, gres, written,
          shells, ps, query, side, cli, contents>>

parseVars == <<doc, presult, contents>>
storeVars == <<platform, fsys, dirs, registry, last>>
genVars == <<cwd, part, ginput, gres, written>>
shellVars == <<shells, ps, query>>

-----------------------------------------------------------------------------
(* Text *)

Rep(c, n) == [i \in 1..n |-> c]

\* The length of the garbage put before or after an id.
MaxTrail == 1

\* The number of segments an XML part is put together from.
MaxSegs == 2

\* The highest number a file name of the working directory ends in.
MaxSuffix == 2

RECURSIVE Concat(_)
Concat(ss) == IF ss = <<>> THEN <<>> ELSE Head(ss) \o Concat(Tail(ss))

\* The sequences over S of length 0..n.
SeqsUpTo(S, n) == UNION {[1..k -> S] : k \in 0..n}

\* text[i..] starts with the literal lit.
LiteralAt(text, lit, i) ==
    /\ i + Len(lit) - 1 <= Len(text)
    /\ \A k \in 1..Len(lit) : text[i + k - 1] = lit[k]

\* The positions at which lit occurs in text.
Occurrences(text, lit) == {i \in 1..Len(text) : LiteralAt(text, lit, i)}

-----------------------------------------------------------------------------
(* isGuid *)

HexDigits == {"0","1","2","3","4","5","6","7","8","9",
              "A","B","C","D","E","F","a","b","c","d","e","f"}

\* [0-9A-F]{n} under the i flag, at position p.
HexRun(text, p, n) ==
    /\ p + n - 1 <= Len(text)
    /\ \A k \in p..(p + n - 1) : text[k] \in HexDigits

\* [-]? at position p: the position after it. A hyphen that is there is always
\* taken: what follows is a hexadecimal digit, which a hyphen is not.
OptHyphen(text, p) == IF p <= Len(text) /\ text[p] = "-" THEN p + 1 ELSE p

\* /^[0-9A-F]{8}[-]?([0-9A-F]{4}[-]?){3}[0-9A-F]{12}?/i : anchored at the start
\* only, so the test is of a prefix of the text.
isGuid(text) ==
    LET p2 == OptHyphen(text, 9)
        p3 == OptHyphen(text, p2 + 4)
        p4 == OptHyphen(text, p3 + 4)
        p5 == OptHyphen(text, p4 + 4)
    IN  /\ HexRun(text, 1, 8)
        /\ HexRun(text, p2, 4)
        /\ HexRun(text, p3, 4)
        /\ HexRun(text, p4, 4)
        /\ HexRun(text, p5, 12)

-----------------------------------------------------------------------------
(* The manifests handed to the parser *)

GuidUpper == <<"3","A","C","6","F","6","E","0","-","9","E","0","F","-","4","B","4","B","-","9","B","3","A","-","0","0","0","0","0","0","0","0","0","0","0","1">>
GuidLower == <<"3","a","c","6","f","6","e","0","-","9","e","0","f","-","4","b","4","b","-","9","b","3","a","-","0","0","0","0","0","0","0","0","0","0","0","1">>
GuidNoHyphens == <<"3","A","C","6","F","6","E","0","9","E","0","F","4","B","4","B","9","B","3","A","0","0","0","0","0","0","0","0","0","0","0","1">>
GuidOneHyphen == <<"3","A","C","6","F","6","E","0","-","9","E","0","F","4","B","4","B","9","B","3","A","0","0","0","0","0","0","0","0","0","0","0","1">>
GuidWithOne == <<"1","0","0","0","0","0","0","0","-","9","E","0","F","-","4","B","4","B","-","9","B","3","A","-","0","0","0","0","0","0","0","0","0","0","A","1">>
GuidNotHex == <<"3","A","C","6","F","6","E","0","-","9","E","0","F","-","4","B","4","B","-","9","B","3","A","-","0","0","0","0","0","0","0","0","0","0","0","G">>
GuidShort == <<"3","A","C","6","F","6","E","0","-","9","E","0","F","-","4","B","4","B","-","9","B","3","A","-","0","0","0","0","0","0","0","0","0","1">>

\* 00000000-0000-0000-0000-000000000000
ZeroGuid == Rep("0", 8) \o <<"-">> \o Rep("0", 4) \o <<"-">> \o Rep("0", 4)
            \o <<"-">> \o Rep("0", 4) \o <<"-">> \o Rep("0", 12)

V1234 == <<"1",".","2",".","3",".","4">>
V2000 == <<"2",".","0",".","0",".","0">>
\* 1.0.0.0
PlaceholderVersion == <<"1",".","0",".","0",".","0">>

BaseIds == {GuidUpper, GuidLower, GuidNoHyphens, GuidOneHyphen, GuidWithOne,
            GuidNotHex, GuidShort, ZeroGuid, <<>>}

Garbage == SeqsUpTo({"0", "x"}, MaxTrail)

\* The texts of the Id element: an id with up to MaxTrail characters before and after.
IdStrings == {pre \o g \o post : pre \in Garbage, g \in BaseIds, post \in Garbage}

VersionStrings == {V1234, PlaceholderVersion, <<>>}

XsiTypes == {"TaskPaneApp", "ContentApp", "MailApp", "OtherApp"}

\* What fs.readFile and xml2js make of the manifest file. readable: readFile
\* succeeded. wellFormed: the parser's callback got an object. officeAppIsObject:
\* the OfficeApp element has an attribute or a child element (xml2js gives the
\* element's text, a string, for one that has neither).
DocumentRecords ==
    [readable : BOOLEAN, wellFormed : BOOLEAN, hasOfficeApp : BOOLEAN,
     officeAppIsObject : BOOLEAN, hasAttributes : BOOLEAN, hasXsiType : BOOLEAN,
     xsiType : XsiTypes, hasId : BOOLEAN, id : IdStrings,
     hasVersion : BOOLEAN, version : VersionStrings]

\* A document is one a file can hold: what is inside an element that is not
\* there is not there either.
Documents ==
    {d \in DocumentRecords :
        /\ d.wellFormed => d.readable
        /\ d.hasOfficeApp => d.wellFormed
        /\ d.officeAppIsObject => d.hasOfficeApp
        /\ d.hasAttributes => d.officeAppIsObject
        /\ d.hasXsiType => d.hasAttributes
        /\ d.hasId => d.officeAppIsObject
        /\ d.hasVersion => d.officeAppIsObject
        /\ ~d.hasXsiType => d.xsiType = "OtherApp"
        /\ ~d.hasId => d.id = <<>>
        /\ ~d.hasVersion => d.version = <<>>}

NoDocument == [readable |-> FALSE, wellFormed |-> FALSE, hasOfficeApp |-> FALSE,
               officeAppIsObject |-> FALSE, hasAttributes |-> FALSE, hasXsiType |-> FALSE,
               xsiType |-> "OtherApp", hasId |-> FALSE, id |-> <<>>,
               hasVersion |-> FALSE, version |-> <<>>]

-----------------------------------------------------------------------------
(* parseManifest *)

Pending == [state |-> "pending"]
Rejected(e) == [state |-> "rejected", err |-> e]
Resolved(v) == [state |-> "resolved", value |-> v]

\* The first settlement of a promise wins: the later calls of resolve and reject
\* in settles are without effect.
Settle(settles) == IF settles = <<>> THEN Pending ELSE Head(settles)

\* The mutant of manifestChecks: the MailApp branch is missing, so that a mail
\* add-in is refused as any other unsupported kind is.
manifestChecksNoMail(d) ==
    IF ~d.wellFormed THEN <<Rejected("MalformedXml"), Rejected("TypeError")>>
    ELSE IF ~d.hasOfficeApp THEN <<Rejected("OfficeAppMissing")>>
    ELSE IF ~d.officeAppIsObject THEN <<Rejected("TypeError")>>
    ELSE IF ~(d.hasAttributes /\ d.hasXsiType) THEN <<Rejected("XsiTypeMissing")>>
    ELSE IF ~d.hasId THEN <<Rejected("IdMissing")>>
    ELSE IF ~d.hasVersion THEN <<Rejected("VersionMissing")>>
    ELSE IF ~isGuid(d.id) THEN <<Rejected("InvalidId")>>
    ELSE IF d.xsiType # "ContentApp" /\ d.xsiType # "TaskPaneApp"
         THEN <<Rejected("UnsupportedKind")>>
    ELSE <<Resolved([type |-> d.xsiType, id |-> d.id, version |-> d.version])>>

\* The callback of parser.parseString (lines 387-422): the calls of reject and
\* resolve it makes, in order. The first branch rejects without returning, and
\* the read of manifestXml['OfficeApp'] after the chain then throws; the in
\* operator throws on an OfficeApp that is a string. What is thrown reaches
\* the catch of line 424, which rejects with it.
manifestChecks(d) ==
    IF ~d.wellFormed THEN <<Rejected("MalformedXml"), Rejected("TypeError")>>
    ELSE IF ~d.hasOfficeApp THEN <<Rejected("OfficeAppMissing")>>
    ELSE IF ~d.officeAppIsObject THEN <<Rejected("TypeError")>>
    ELSE IF ~(d.hasAttributes /\ d.hasXsiType) THEN <<Rejected("XsiTypeMissing")>>
    ELSE IF ~d.hasId THEN <<Rejected("IdMissing")>>
    ELSE IF ~d.hasVersion THEN <<Rejected("VersionMissing")>>
    ELSE IF ~isGuid(d.id) THEN <<Rejected("InvalidId")>>
    ELSE IF d.xsiType = "MailApp" THEN <<Rejected("UnsupportedApplication")>>
    ELSE IF d.xsiType # "ContentApp" /\ d.xsiType # "TaskPaneApp"
         THEN <<Rejected("UnsupportedKind")>>
    ELSE <<Resolved([type |-> d.xsiType, id |-> d.id, version |-> d.version])>>

\* parseManifest(manifestPath), of the document at that path. A failed read
\* rejects in the catch of readFile and goes on with an undefined buffer, which
\* the parser reports as an error to the callback.
parseManifest(d) ==
    IF ~d.readable
    THEN Settle(<<Rejected("ReadError")>> \o manifestChecks([d EXCEPT !.wellFormed = FALSE]))
    ELSE Settle(manifestChecks(d))

-----------------------------------------------------------------------------
(* applicationProperties *)

\* Object.keys(applicationProperties), in the order of the source.
Applications == <<"word", "excel", "powerpoint", "outlook", "onenote", "project">>

ApplicationKeys == {Applications[i] : i \in 1..Len(Applications)}

\* No application: null, undefined or the empty string.
NoApplication == "null"

Undefined == "undefined"

\* applicationProperties[application].sideloadingDirectory
sideloadingDirectory(application) ==
    CASE application = "word" -> "wef/word"
      [] application = "excel" -> "wef/excel"
      [] application = "powerpoint" -> "wef/powerpoint"
      [] OTHER -> Undefined

SideloadingDirectories == {"wef/word", "wef/excel", "wef/powerpoint"}

-----------------------------------------------------------------------------
(* The file system *)

\* A path is a directory and a name in it: path.join and path.basename put
\* the two together and take them apart.
Join(dir, name) == [dir |-> dir, name |-> name]
Basename(path) == path.name

\* The directories manifests are kept in. /l is a symbolic link to /p; /v is
\* on another volume than the home directory.
SourceDirectories == {"/p", "/q", "/v"}
LinkedDirectory == "/l"
RealDirectories == SourceDirectories \cup SideloadingDirectories

\* readdirSync's order.
FileNames == <<".DS_Store", "a.xml", "b.xml", "s.xml">>

\* An entry named s.xml is a symbolic link to the manifest /p/a.xml, put into
\* a sideloading directory by something else than the tool.
SymlinkName == "s.xml"
FileNameSet == {FileNames[i] : i \in 1..Len(FileNames)}

\* junk.not: the file-system noise that a listing leaves out.
NotJunk(name) == name # ".DS_Store"

RealPaths == {Join(d, n) : d \in RealDirectories, n \in FileNameSet}

\* fs.realpathSync of a path whose file exists.
Realpath(path) ==
    IF path.dir = LinkedDirectory THEN Join("/p", path.name)
    ELSE IF path.name = SymlinkName THEN Join("/p", "a.xml")
    ELSE path

\* stat's dev and ino of a file; NoFile where there is none.
NoFile == [dev |-> 0, ino |-> 0]
HomeDevice == 1
OtherDevice == 2
DeviceOf(dir) == IF dir = "/v" THEN OtherDevice ELSE HomeDevice

\* The manifests on disk, which the tool never writes.
SourceFiles ==
    [p \in {Join(d, n) : d \in SourceDirectories, n \in FileNameSet} |->
        CASE p = Join("/p", "a.xml") -> [dev |-> HomeDevice, ino |-> 1]
          [] p = Join("/q", "a.xml") -> [dev |-> HomeDevice, ino |-> 2]
          [] p = Join("/p", "b.xml") -> [dev |-> HomeDevice, ino |-> 3]
          [] p = Join("/v", "a.xml") -> [dev |-> OtherDevice, ino |-> 1]
          [] OTHER -> NoFile]

\* Files put into a sideloading directory by something else than the tool: a
\* copy of a manifest, and the Finder's .DS_Store.
CopiedFile == [dev |-> HomeDevice, ino |-> 8]
JunkFile == [dev |-> HomeDevice, ino |-> 9]
SymlinkFile == [dev |-> HomeDevice, ino |-> 7]

\* The files that hold a manifest.
ManifestFiles == ({SourceFiles[p] : p \in DOMAIN SourceFiles} \ {NoFile}) \cup {CopiedFile}

\* fs.existsSync and fs.statSync follow symbolic links.
StatOf(fs, path) == IF Realpath(path) \in DOMAIN fs THEN fs[Realpath(path)] ELSE NoFile
ExistsSync(fs, path) == StatOf(fs, path) # NoFile

\* fs.realpathSync throws on a symbolic link whose file is gone.
Dangling(fs, path) == path.name = SymlinkName /\ fs[Realpath(path)] = NoFile

\* No path: null or undefined.
NoPath == Join("", "")

\* The paths handed to addManifest, which sideloadManifest has resolved: of
\* manifests, of a file that does not exist (/q/b.xml), and of an entry of a
\* sideloading directory.
ResolvedPathSeq ==
    <<Join("/p", "a.xml"), Join("/q", "a.xml"), Join("/v", "a.xml"), Join("/p", "b.xml"),
      Join("/q", "b.xml"), Join("wef/excel", "a.xml")>>

ResolvedPaths == {ResolvedPathSeq[i] : i \in 1..Len(ResolvedPathSeq)}

\* The paths a user names: those, one through the symbolic link, and none.
UserPaths == ResolvedPaths \cup {Join(LinkedDirectory, "a.xml"), NoPath}

ApplicationInputs == {"word", "excel", "outlook", NoApplication}

-----------------------------------------------------------------------------
(* The store on the other platforms: the sideloading directories *)

Threw(fs, ds, e) == [res |-> Rejected(e), fs |-> fs, dirs |-> ds]

\* fs.linkSync(src, dst)
linkSync(fs, ds, src, dst) ==
    IF fs[dst] # NoFile THEN Threw(fs, ds, "EEXIST")
    ELSE IF StatOf(fs, src).dev # DeviceOf(dst.dir) THEN Threw(fs, ds, "EXDEV")
    ELSE [res |-> Resolved("done"), fs |-> [fs EXCEPT ![dst] = StatOf(fs, src)], dirs |-> ds]

\* fs.ensureLinkSync(src, dst) of fs-extra: nothing to do when dst exists;
\* else src must exist, and is linked.
ensureLinkSync(fs, ds, src, dst) ==
    IF fs[dst] # NoFile THEN [res |-> Resolved("done"), fs |-> fs, dirs |-> ds]
    ELSE IF ~ExistsSync(fs, src) THEN Threw(fs, ds, "ENOENT")
    ELSE linkSync(fs, ds, src, dst)

\* The mutant of addManifestToSideloadingDirectory: fs.linkSync in the place of
\* fs.ensureLinkSync, which fails on a link that is there already.
addManifestWithLinkSync(application, manifestPath, fs, ds) ==
    IF application \notin ApplicationKeys THEN Threw(fs, ds, "TypeError")
    ELSE IF sideloadingDirectory(application) = Undefined THEN Threw(fs, ds, "TypeError")
    ELSE
        LET dir == sideloadingDirectory(application)
            ds1 == ds \cup {dir}
            sideloadingManifestPath == Join(dir, Basename(manifestPath))
        IN  IF fs[sideloadingManifestPath] # NoFile /\ ~ExistsSync(fs, manifestPath)
            THEN Threw(fs, ds1, "ENOENT")
            ELSE IF /\ fs[sideloadingManifestPath] # NoFile
                    /\ StatOf(fs, manifestPath).ino # fs[sideloadingManifestPath].ino
                    /\ StatOf(fs, manifestPath).dev # fs[sideloadingManifestPath].dev
            THEN Threw(fs, ds1, "Conflict")
            ELSE IF ~ExistsSync(fs, manifestPath) THEN Threw(fs, ds1, "ENOENT")
            ELSE linkSync(fs, ds1, manifestPath, sideloadingManifestPath)

\* addManifestToSideloadingDirectory(application, manifestPath). What the
\* executor throws rejects the promise: applicationProperties[application] of
\* an unknown application, ensureDirSync of an undefined directory, statSync of
\* a manifest that does not exist, the link that cannot be made.
addManifestToSideloadingDirectory(application, manifestPath, fs, ds) ==
    IF application \notin ApplicationKeys THEN Threw(fs, ds, "TypeError")
    ELSE IF sideloadingDirectory(application) = Undefined THEN Threw(fs, ds, "TypeError")
    ELSE
        LET dir == sideloadingDirectory(application)
            ds1 == ds \cup {dir}
            sideloadingManifestPath == Join(dir, Basename(manifestPath))
        IN  IF fs[sideloadingManifestPath] # NoFile /\ ~ExistsSync(fs, manifestPath)
            THEN Threw(fs, ds1, "ENOENT")
            ELSE IF /\ fs[sideloadingManifestPath] # NoFile
                    /\ StatOf(fs, manifestPath).ino # fs[sideloadingManifestPath].ino
                    /\ StatOf(fs, manifestPath).dev # fs[sideloadingManifestPath].dev
            THEN Threw(fs, ds1, "Conflict")
            ELSE ensureLinkSync(fs, ds1, manifestPath, sideloadingManifestPath)

\* The applications a call with inputApplication goes through, in order.
ScannedApplications(inputApplication) ==
    SelectSeq(Applications,
              LAMBDA a : inputApplication = NoApplication \/ a = inputApplication)

\* The entries of a sideloading directory, in readdirSync's order.
DirectoryEntries(fs, ds, dir) ==
    IF dir \notin ds THEN <<>>
    ELSE LET names == SelectSeq(FileNames, LAMBDA n : fs[Join(dir, n)] # NoFile)
         IN  [i \in 1..Len(names) |-> Join(dir, names[i])]

\* getManifestsFromSideloadingDirectory(inputApplication): the real paths of
\* the entries that are not junk, of the directories that exist.
getManifestsFromSideloadingDirectory(inputApplication, fs, ds) ==
    LET apps == ScannedApplications(inputApplication)
        listing(a) == LET entries == DirectoryEntries(fs, ds, sideloadingDirectory(a))
                          kept == SelectSeq(entries, LAMBDA e : NotJunk(e.name))
                      IN  [i \in 1..Len(kept) |-> Realpath(kept[i])]
    IN  Concat([i \in 1..Len(apps) |-> listing(apps[i])])

\* An entry realpathSync throws on is among those getManifests goes through.
ListingThrows(inputApplication, fs, ds) ==
    LET apps == ScannedApplications(inputApplication)
    IN  \E i \in 1..Len(apps) :
            LET entries == DirectoryEntries(fs, ds, sideloadingDirectory(apps[i]))
            IN  \E k \in 1..Len(entries) :
                    NotJunk(entries[k].name) /\ Dangling(fs, entries[k])

\* The callback of forEach (lines 187-194) on the entries of one directory,
\* in order: the file system after it, whether something was removed, and
\* what realpathSync threw.
RECURSIVE UnlinkMatches(_, _, _, _)
UnlinkMatches(entries, manifestPathToRemove, fs, removed) ==
    IF entries = <<>> THEN [fs |-> fs, removed |-> removed, err |-> ""]
    ELSE IF Dangling(fs, Head(entries)) THEN [fs |-> fs, removed |-> removed, err |-> "ENOENT"]
    ELSE IF Realpath(Head(entries)) = manifestPathToRemove
    THEN UnlinkMatches(Tail(entries), manifestPathToRemove,
                       [fs EXCEPT ![manifestPathToRemove] = NoFile], TRUE)
    ELSE UnlinkMatches(Tail(entries), manifestPathToRemove, fs, removed)

\* The loop over the applications (lines 178-196).
RECURSIVE ScanAndUnlink(_, _, _, _, _)
ScanAndUnlink(apps, manifestPathToRemove, fs, ds, removed) ==
    IF apps = <<>> THEN [fs |-> fs, removed |-> removed, err |-> ""]
    ELSE LET scanned == UnlinkMatches(DirectoryEntries(fs, ds, sideloadingDirectory(Head(apps))),
                                      manifestPathToRemove, fs, removed)
         IN  IF scanned.err # "" THEN scanned
             ELSE ScanAndUnlink(Tail(apps), manifestPathToRemove, scanned.fs, ds,
                                scanned.removed)

\* removeManifestFromSideloadingDirectory(inputApplication, manifestPathToRemove):
\* for every entry whose real path is manifestPathToRemove, that path is
\* unlinked. The promise is rejected when nothing was removed or something
\* was thrown, and is left alone otherwise.
removeManifestFromSideloadingDirectory(inputApplication, manifestPathToRemove, fs, ds) ==
    LET scanned == ScanAndUnlink(ScannedApplications(inputApplication),
                                 manifestPathToRemove, fs, ds, FALSE)
    IN  [res |-> IF scanned.err # "" THEN Rejected(scanned.err)
                 ELSE IF scanned.removed THEN Pending
                 ELSE Rejected("NothingRemoved"),
         fs |-> scanned.fs,
         dirs |-> ds]

-----------------------------------------------------------------------------
(* The store on win32: the values of the registry key ...\16.0\WEF\Developer *)

NoValue == Join("", "")
OtherData == Join("", "data")
UserValueName == Join("", "UserValue")

\* A property Get-ItemProperty adds to the values of a key: the key's name.
PSChildName == Join("", "PSChildName")
DeveloperKeyName == Join("", "Developer")

\* The names of the values, in the order Get-ItemProperty gives them.
RegistryNameSeq == ResolvedPathSeq \o <<UserValueName, PSChildName>>
RegistryNames == {RegistryNameSeq[i] : i \in 1..Len(RegistryNameSeq)}

NoValues == [n \in RegistryNames |-> NoValue]

\* String.prototype.toLowerCase of a name or of a value's data, which are paths.
LowerCase(text) ==
    CASE text = "/P" -> "/p"
      [] text = "A.XML" -> "a.xml"
      [] OTHER -> text

ToLowerCase(path) == Join(LowerCase(path.dir), LowerCase(path.name))

\* The data of a value that something else than the tool has written: the
\* name in capital letters.
UpperCaseData == Join("/P", "A.XML")

SetItemProperty(name, value) == [cmd |-> "Set-ItemProperty", name |-> name, value |-> value]
GetItemProperty == [cmd |-> "Get-ItemProperty", name |-> NoValue, value |-> NoValue]
RemoveItemProperty(name) == [cmd |-> "Remove-ItemProperty", name |-> name, value |-> NoValue]

\* The mutant of EnsureRegistryPath: without the Throw, the keys are made
\* under a root key that is not there.
EnsureRegistryPathNoThrow(reg) ==
    [err |-> "", reg |-> [reg EXCEPT !.wef = TRUE, !.developer = TRUE]]

\* The commands of the first shell (lines 214-219): Throw "NO-OFFICE-16" when
\* the Office 16.0 key is missing, which ends the invocation; else New-Item for
\* each of the WEF and WEF\Developer keys that is missing.
EnsureRegistryPath(reg) ==
    IF ~reg.office16 THEN [err |-> "NO-OFFICE-16", reg |-> reg]
    ELSE [err |-> "", reg |-> [reg EXCEPT !.wef = TRUE, !.developer = TRUE]]

\* The command of the second shell (lines 225-230), on the Developer key: its
\* output and the registry after it.
InvokeCommand(command, reg) ==
    CASE command.cmd = "Set-ItemProperty" ->
            [output |-> NoValues,
             reg |-> [reg EXCEPT !.values[command.name] = command.value]]
      [] command.cmd = "Remove-ItemProperty" ->
            [output |-> NoValues,
             reg |-> IF command.name \in RegistryNames
                     THEN [reg EXCEPT !.values[command.name] = NoValue]
                     ELSE reg]
      [] OTHER ->
            [output |-> IF reg.values = NoValues THEN NoValues
                        ELSE [reg.values EXCEPT ![PSChildName] = DeveloperKeyName],
             reg |-> reg]

\* querySideloadingRegistry(commands) when no shell fails: the first shell
\* throws NO-OFFICE-16 when the Office 16.0 key is missing and creates the WEF
\* and WEF\Developer keys otherwise; the second shell runs the command on the
\* Developer key and its output resolves the promise.
querySideloadingRegistry(command, reg) ==
    LET ensured == EnsureRegistryPath(reg)
    IN  IF ensured.err # "" THEN [res |-> Rejected("HostNotInstalled"), reg |-> reg]
        ELSE LET ran == InvokeCommand(command, ensured.reg)
             IN  [res |-> Resolved(ran.output), reg |-> ran.reg]

\* addManifestToRegistry(manifestPath)
addManifestToRegistry(manifestPath, reg) ==
    querySideloadingRegistry(SetItemProperty(manifestPath, manifestPath), reg)

\* The mutant of manifestPathsOf: without the comparison of name and data.
manifestPathsUnfiltered(registryOutput) ==
    IF registryOutput = NoValues
    THEN Settle(<<Resolved(<<>>), Rejected("SyntaxError")>>)
    ELSE Resolved(SelectSeq(RegistryNameSeq, LAMBDA n : registryOutput[n] # NoValue))

\* Lines 254-268 of getManifestsFromRegistry: what the promise is settled with
\* for an output of Get-ItemProperty.
manifestPathsOf(registryOutput) ==
    IF registryOutput = NoValues
    THEN Settle(<<Resolved(<<>>), Rejected("SyntaxError")>>)
    ELSE Resolved(SelectSeq(RegistryNameSeq,
                    LAMBDA n : /\ registryOutput[n] # NoValue
                               /\ ToLowerCase(registryOutput[n]) = ToLowerCase(n)))

\* getManifestsFromRegistry(): of the output of Get-ItemProperty, the names
\* whose data is the name, whatever the case of the letters. An output without
\* "{" resolves with the empty list (what follows the missing return throws,
\* is caught and rejects a promise that is settled).
getManifestsFromRegistry(reg) ==
    LET q == querySideloadingRegistry(GetItemProperty, reg)
    IN  IF q.res.state # "resolved" THEN q
        ELSE [res |-> manifestPathsOf(q.res.value), reg |-> q.reg]

\* The mutant of removeManifestFromRegistry: without the test of the path.
removeManifestFromRegistryUnchecked(manifestPath, reg) ==
    querySideloadingRegistry(RemoveItemProperty(manifestPath), reg)

\* removeManifestFromRegistry(manifestPath)
removeManifestFromRegistry(manifestPath, reg) ==
    IF manifestPath = NoPath THEN [res |-> Rejected("MissingArgument"), reg |-> reg]
    ELSE querySideloadingRegistry(RemoveItemProperty(manifestPath), reg)

-----------------------------------------------------------------------------
(* The store: the platform decides *)

\* The state of the store and the promise an operation returned.
Outcome(res, fs, ds, reg) == [res |-> res, fs |-> fs, dirs |-> ds, reg |-> reg]

\* addManifest(application, manifestPath)
addManifest(pf, application, manifestPath, fs, ds, reg) ==
    IF pf = "win32"
    THEN LET r == addManifestToRegistry(manifestPath, reg)
         IN  Outcome(r.res, fs, ds, r.reg)
    ELSE LET r == addManifestToSideloadingDirectory(application, manifestPath, fs, ds)
         IN  Outcome(r.res, r.fs, r.dirs, reg)

\* getManifests(application)
getManifests(pf, application, fs, ds, reg) ==
    IF pf = "win32"
    THEN LET r == getManifestsFromRegistry(reg)
         IN  Outcome(r.res, fs, ds, r.reg)
    ELSE IF ListingThrows(application, fs, ds) THEN Outcome(Rejected("ENOENT"), fs, ds, reg)
    ELSE Outcome(Resolved(getManifestsFromSideloadingDirectory(application, fs, ds)),
                 fs, ds, reg)

\* removeManifest(application, manifestPath): the path is resolved when its
\* file exists.
removeManifest(pf, application, manifestPath, fs, ds, reg) ==
    LET resolved == IF ExistsSync(fs, manifestPath) THEN Realpath(manifestPath)
                    ELSE manifestPath
    IN  IF pf = "win32"
        THEN LET r == removeManifestFromRegistry(resolved, reg)
             IN  Outcome(r.res, fs, ds, r.reg)
        ELSE LET r == removeManifestFromSideloadingDirectory(application, resolved, fs, ds)
             IN  Outcome(r.res, r.fs, r.dirs, reg)

-----------------------------------------------------------------------------
(* String.prototype.replace with a global regular expression *)

LineTerminators == {"\n", "\r"}

\* One atom of a pattern against one character: "." is any character but a
\* line terminator, every other atom of the patterns used is that character.
AtomMatches(atom, c) == IF atom = "." THEN c \notin LineTerminators ELSE atom = c

\* The pattern matches text at position i.
MatchAt(text, pattern, i) ==
    /\ i + Len(pattern) - 1 <= Len(text)
    /\ \A k \in 1..Len(pattern) : AtomMatches(pattern[k], text[i + k - 1])

\* The replacement string with its patterns filled in: $$ is a dollar sign and
\* $& the matched text. (No replacement of the model holds $`, $' or $n.)
RECURSIVE Expand(_, _)
Expand(replacement, matched) ==
    IF replacement = <<>> THEN <<>>
    ELSE IF Len(replacement) >= 2 /\ replacement[1] = "$" /\ replacement[2] = "$"
    THEN <<"$">> \o Expand(SubSeq(replacement, 3, Len(replacement)), matched)
    ELSE IF Len(replacement) >= 2 /\ replacement[1] = "$" /\ replacement[2] = "&"
    THEN matched \o Expand(SubSeq(replacement, 3, Len(replacement)), matched)
    ELSE <<Head(replacement)>> \o Expand(Tail(replacement), matched)

\* The matches are looked for from left to right and do not overlap; what was
\* put in for a match is not looked at again.
RECURSIVE ReplaceFrom(_, _, _, _)
ReplaceFrom(text, pattern, replacement, i) ==
    IF i > Len(text) THEN <<>>
    ELSE IF MatchAt(text, pattern, i)
    THEN Expand(replacement, SubSeq(text, i, i + Len(pattern) - 1))
         \o ReplaceFrom(text, pattern, replacement, i + Len(pattern))
    ELSE <<text[i]>> \o ReplaceFrom(text, pattern, replacement, i + 1)

\* text.replace(/pattern/g, replacement)
RegexReplace(text, pattern, replacement) == ReplaceFrom(text, pattern, replacement, 1)

-----------------------------------------------------------------------------
(* generateTemplateFile *)

\* Object.keys(applicationProperties[application])
PropertyKeys(application) ==
    CASE application = "word" ->
            {"TaskPaneApp", "sideloadingDirectory", "documentationLink", "canSideload"}
      [] application \in {"excel", "powerpoint"} ->
            {"TaskPaneApp", "ContentApp", "sideloadingDirectory", "documentationLink",
             "canSideload"}
      [] OTHER -> {"documentationLink", "canSideload"}

TemplateKinds == {"TaskPaneApp", "ContentApp"}

\* applicationProperties[application][type].templateName, as split('.') takes
\* it apart: the name and the extension.
templateName(application, type) ==
    CASE application = "word" /\ type = "TaskPaneApp" -> <<"DocumentWithTaskPane", "docx">>
      [] application = "excel" /\ type = "TaskPaneApp" -> <<"BookWithTaskPane", "xlsx">>
      [] application = "excel" /\ type = "ContentApp" -> <<"BookWithContent", "xlsx">>
      [] application = "powerpoint" /\ type = "TaskPaneApp" ->
            <<"PresentationWithTaskPane", "pptx">>
      [] application = "powerpoint" /\ type = "ContentApp" ->
            <<"PresentationWithContent", "pptx">>

TemplateNames ==
    {templateName(a, t) : a \in {"excel", "powerpoint"}, t \in TemplateKinds}
    \cup {templateName("word", "TaskPaneApp")}

\* A file of the working directory: name, number and extension. The file
\* without a number has NoNumber.
NoNumber == -1
FileOf(name, number) == [name |-> name[1], number |-> number, ext |-> name[2]]

WorkingFiles == {FileOf(n, k) : n \in TemplateNames, k \in NoNumber..MaxSuffix}

\* The content of a file: none, what the user put there, or the XML part of a
\* generated document.
NoContent == <<"(no file)">>
UserContent == <<"(a file of the user)">>
NoPart == <<"(no such part)">>

FileExists(files, file) == file \in DOMAIN files /\ files[file] # NoContent

\* The mutant of SearchTemplatePath: an if in the place of the while, so that
\* only the first numbered name is tried.
SearchTemplatePathOnce(files, name, templatePath, i) ==
    IF FileExists(files, templatePath)
    THEN [templatePath |-> FileOf(name, i), i |-> i + 1]
    ELSE [templatePath |-> templatePath, i |-> i]

\* The while loop of lines 459-464: templatePath after it, and the number of
\* times its body ran.
RECURSIVE SearchTemplatePath(_, _, _, _)
SearchTemplatePath(files, name, templatePath, i) ==
    IF FileExists(files, templatePath)
    THEN SearchTemplatePath(files, name, FileOf(name, i), i + 1)
    ELSE [templatePath |-> templatePath, i |-> i]

\* The two replacements of lines 474 and 475.
ReplacePlaceholders(webExtensionXml, id, version) ==
    RegexReplace(RegexReplace(webExtensionXml, ZeroGuid, id), PlaceholderVersion, version)

GenOutcome(res, files, path, i) == [res |-> res, files |-> files, path |-> path, i |-> i]

NoFilePath == [name |-> "", number |-> NoNumber, ext |-> ""]

\* The mutant of generateTemplateFile: without the test of lines 450-453, a
\* combination that is not configured fails at line 455 with a TypeError.
generateTemplateFileUnchecked(application, type, id, version, files, xmlPart) ==
    IF application \notin ApplicationKeys \/ type \notin PropertyKeys(application)
       \/ type \notin TemplateKinds
    THEN GenOutcome(Rejected("TypeError"), files, NoFilePath, 0)
    ELSE
        LET defaultTemplateName == templateName(application, type)
            found == SearchTemplatePath(files, defaultTemplateName,
                                        FileOf(defaultTemplateName, NoNumber), 0)
        IN  IF xmlPart = NoPart
            THEN GenOutcome(Rejected("TypeError"), files, NoFilePath, found.i)
            ELSE GenOutcome(Resolved(found.templatePath),
                            [files EXCEPT ![found.templatePath] =
                                ReplacePlaceholders(xmlPart, id, version)],
                            found.templatePath, found.i)

\* generateTemplateFile(application, type, id, version) in a working directory
\* holding files, with xmlPart the archive's part at webExtensionPath (NoPart:
\* the archive has none, and zip.file(...) is null).
generateTemplateFile(application, type, id, version, files, xmlPart) ==
    IF application \notin ApplicationKeys \/ type \notin PropertyKeys(application)
    THEN GenOutcome(Rejected("UnsupportedCombination"), files, NoFilePath, 0)
    ELSE IF type \notin TemplateKinds
    THEN GenOutcome(Rejected("TypeError"), files, NoFilePath, 0)
    ELSE
        LET defaultTemplateName == templateName(application, type)
            found == SearchTemplatePath(files, defaultTemplateName,
                                        FileOf(defaultTemplateName, NoNumber), 0)
        IN  IF xmlPart = NoPart
            THEN GenOutcome(Rejected("TypeError"), files, NoFilePath, found.i)
            ELSE GenOutcome(Resolved(found.templatePath),
                            [files EXCEPT ![found.templatePath] =
                                ReplacePlaceholders(xmlPart, id, version)],
                            found.templatePath, found.i)

-----------------------------------------------------------------------------
(* The states before anything has run *)

EmptyDirectories ==
    [p \in RealPaths |-> IF p \in DOMAIN SourceFiles THEN SourceFiles[p] ELSE NoFile]

NoRegistry == [office16 |-> FALSE, wef |-> FALSE, developer |-> FALSE, values |-> NoValues]

NoOperation ==
    [op |-> "none", application |-> NoApplication, path |-> NoPath, res |-> Pending,
     fs0 |-> EmptyDirectories, dirs0 |-> {}, reg0 |-> NoRegistry, afterAdd |-> FALSE,
     again |-> FALSE]

NoFiles == [f \in WorkingFiles |-> NoContent]

NoInput == [application |-> NoApplication, type |-> "", id |-> <<>>, version |-> <<>>]

NoGeneration == [res |-> Pending, path |-> NoFilePath, i |-> 0, files0 |-> NoFiles]

\* Files whose content no operation of the run reads.
NoContents == [f \in ManifestFiles |-> NoDocument]

ParserIdle == doc = NoDocument /\ presult = Pending /\ contents = NoContents

StoreIdle ==
    /\ platform = "darwin"
    /\ fsys = EmptyDirectories
    /\ dirs = {}
    /\ registry = NoRegistry
    /\ last = NoOperation

GeneratorIdle ==
    /\ cwd = NoFiles
    /\ part = NoPart
    /\ ginput = NoInput
    /\ gres = NoGeneration
    /\ written = <<>>

\* No registry operation has begun: no shell, no promise.
NoQuery ==
    [pc |-> "idle", op |-> "none", path |-> NoPath, res |-> Pending, reg0 |-> NoRegistry,
     output |-> NoValues, err |-> "", ran |-> FALSE]

ShellIdle ==
    /\ shells = <<>>
    /\ ps = 0
    /\ query = NoQuery

NoParse == [type |-> "", id |-> <<>>, version |-> <<>>]

\* No sideload has begun.
NoSideload ==
    [pc |-> "idle", application |-> NoApplication, input |-> NoPath, path |-> NoPath,
     steps |-> <<>>, parsed |-> NoParse, templateFile |-> NoFilePath, opened |-> <<>>,
     res |-> Pending, fs0 |-> EmptyDirectories, dirs0 |-> {}, reg0 |-> NoRegistry,
     files0 |-> NoFiles]

SideloadIdle == side = NoSideload

\* No command has run.
NoCommand ==
    [version |-> "none", command |-> "none", failure |-> Pending,
     err |-> [kind |-> "none", parts |-> <<>>], console |-> <<>>, telemetry |-> <<>>,
     unhandled |-> <<>>]

CliIdle == cli = NoCommand

-----------------------------------------------------------------------------
(* The parser, on every document *)

InitParse ==
    /\ doc \in Documents
    /\ presult = Pending
    /\ contents = NoContents
    /\ StoreIdle
    /\ GeneratorIdle
    /\ ShellIdle
    /\ SideloadIdle
    /\ CliIdle

\* parseManifest(manifestPath) runs and its promise settles.
Parse ==
    /\ presult = Pending
    /\ presult' = parseManifest(doc)
    /\ UNCHANGED <<doc, contents, storeVars, genVars, shellVars, side, cli>>

NextParse == Parse

SpecParse == InitParse /\ [][NextParse]_vars

-----------------------------------------------------------------------------
(* The store, under any sequence of add, list and remove *)

\* The registries a run may start from: without Office 16.0; with it and
\* without the WEF keys; with the Developer key, holding nothing, a value of
\* another program, or a value written with other letters than its name.
InitialRegistries ==
    {NoRegistry,
     [NoRegistry EXCEPT !.office16 = TRUE],
     [NoRegistry EXCEPT !.office16 = TRUE, !.wef = TRUE]}
    \cup
    {[office16 |-> TRUE, wef |-> TRUE, developer |-> TRUE, values |-> v] :
        v \in {NoValues,
               [NoValues EXCEPT ![UserValueName] = OtherData],
               [NoValues EXCEPT ![Join("/p", "a.xml")] = UpperCaseData]}}

\* The sideloading directories a run may start from: none; or that of excel,
\* holding a copy of a manifest named a.xml, a .DS_Store, both or nothing.
InitialDirectories ==
    {[fs |-> EmptyDirectories, dirs |-> {}]}
    \cup
    {[fs |-> [EmptyDirectories EXCEPT
                ![Join("wef/excel", "a.xml")] = IF copy THEN CopiedFile ELSE NoFile,
                ![Join("wef/excel", ".DS_Store")] = IF junk THEN JunkFile ELSE NoFile],
      dirs |-> {"wef/excel"}] : copy \in BOOLEAN, junk \in BOOLEAN}

InitStore ==
    /\ platform \in {"win32", "darwin"}
    /\ \E d \in InitialDirectories :
          /\ fsys = (IF platform = "darwin" THEN d.fs ELSE EmptyDirectories)
          /\ dirs = (IF platform = "darwin" THEN d.dirs ELSE {})
    /\ \E r \in InitialRegistries :
          registry = (IF platform = "win32" THEN r ELSE NoRegistry)
    /\ last = NoOperation
    /\ ParserIdle
    /\ GeneratorIdle
    /\ ShellIdle
    /\ SideloadIdle
    /\ CliIdle

\* again: the call repeats the call before it, which succeeded.
Operation(op, application, path, out, afterAdd) ==
    [op |-> op, application |-> application, path |-> path, res |-> out.res,
     fs0 |-> fsys, dirs0 |-> dirs, reg0 |-> registry, afterAdd |-> afterAdd,
     again |-> /\ last.op = op
               /\ last.application = application
               /\ last.path = path
               /\ last.res.state = "resolved"]

\* addManifest(application, manifestPath)
Add(application, manifestPath) ==
    LET out == addManifest(platform, application, manifestPath, fsys, dirs, registry)
    IN  /\ fsys' = out.fs
        /\ dirs' = out.dirs
        /\ registry' = out.reg
        /\ last' = Operation("add", application, manifestPath, out, FALSE)
        /\ UNCHANGED <<platform, parseVars, genVars, shellVars, side, cli>>

\* getManifests(application)
List(application) ==
    LET out == getManifests(platform, application, fsys, dirs, registry)
    IN  /\ fsys' = out.fs
        /\ dirs' = out.dirs
        /\ registry' = out.reg
        /\ last' = Operation("list", application, NoPath, out, FALSE)
        /\ UNCHANGED <<platform, parseVars, genVars, shellVars, side, cli>>

\* removeManifest(application, manifestPath). afterAdd: the call follows an
\* add of the same application and manifest that succeeded.
Remove(application, manifestPath) ==
    LET out == removeManifest(platform, application, manifestPath, fsys, dirs, registry)
        afterAdd == /\ last.op = "add"
                    /\ last.res.state = "resolved"
                    /\ last.application = application
                    /\ last.path = manifestPath
    IN  /\ fsys' = out.fs
        /\ dirs' = out.dirs
        /\ registry' = out.reg
        /\ last' = Operation("remove", application, manifestPath, out, afterAdd)
        /\ UNCHANGED <<platform, parseVars, genVars, shellVars, side, cli>>

NextStore ==
    \/ \E a \in ApplicationInputs, p \in ResolvedPaths : Add(a, p)
    \/ \E a \in ApplicationInputs : List(a)
    \/ \E a \in ApplicationInputs, p \in UserPaths : Remove(a, p)

SpecStore == InitStore /\ [][NextStore]_vars

-----------------------------------------------------------------------------
(* The directory store with symbolic links among its entries *)

\* The sideloading directories of word and excel, each holding a symbolic
\* link to /p/a.xml or not, and that of excel a hard link to /p/a.xml or not.
LinkedDirectories ==
    {[fs |-> [EmptyDirectories EXCEPT
                ![Join("wef/word", SymlinkName)] = IF inWord THEN SymlinkFile ELSE NoFile,
                ![Join("wef/excel", SymlinkName)] = IF inExcel THEN SymlinkFile ELSE NoFile,
                ![Join("wef/excel", "a.xml")] =
                    IF linked THEN SourceFiles[Join("/p", "a.xml")] ELSE NoFile],
      dirs |-> {"wef/word", "wef/excel"}] : inWord \in BOOLEAN, inExcel \in BOOLEAN,
                                            linked \in BOOLEAN}

InitLinks ==
    /\ platform = "darwin"
    /\ \E d \in LinkedDirectories : fsys = d.fs /\ dirs = d.dirs
    /\ registry = NoRegistry
    /\ last = NoOperation
    /\ ParserIdle
    /\ GeneratorIdle
    /\ ShellIdle
    /\ SideloadIdle
    /\ CliIdle

SpecLinks == InitLinks /\ [][NextStore]_vars

-----------------------------------------------------------------------------
(* The generator, called again and again in one working directory *)

\* The part of a template: a reference with the two placeholders.
TemplatePart ==
    <<"i", "d", "=">> \o ZeroGuid \o <<" ", "v", "=">> \o PlaceholderVersion \o <<"/">>

GeneratorApplications == {"word", "excel", "outlook", "onenote", "project", NoApplication}

GeneratorInputs(ids, versions) ==
    [application : GeneratorApplications, type : TemplateKinds, id : ids, version : versions]

\* The files the user has in the working directory: under the name of the
\* input's template, with any of the numbers.
InitialFiles(input) ==
    IF input.application \in ApplicationKeys /\ input.type \in PropertyKeys(input.application)
    THEN {[f \in WorkingFiles |->
              IF f.name = templateName(input.application, input.type)[1] /\ f.number \in ns
              THEN UserContent ELSE NoContent] : ns \in SUBSET (NoNumber..MaxSuffix)}
    ELSE {NoFiles}

InitGen ==
    /\ ginput \in GeneratorInputs({GuidUpper, ZeroGuid}, {V1234, PlaceholderVersion})
    /\ cwd \in InitialFiles(ginput)
    /\ part \in {TemplatePart, NoPart}
    /\ gres = NoGeneration
    /\ written = <<>>
    /\ ParserIdle
    /\ StoreIdle
    /\ ShellIdle
    /\ SideloadIdle
    /\ CliIdle

\* generateTemplateFile(application, type, id, version), as long as the
\* working directory has a name left below MaxSuffix.
Generate ==
    LET out == generateTemplateFile(ginput.application, ginput.type, ginput.id,
                                    ginput.version, cwd, part)
    IN  /\ out.res.state = "resolved" => out.path \in WorkingFiles
        /\ cwd' = out.files
        /\ gres' = [res |-> out.res, path |-> out.path, i |-> out.i, files0 |-> cwd]
        /\ written' = IF out.res.state = "resolved" THEN Append(written, out.path)
                      ELSE written
        /\ UNCHANGED <<part, ginput, parseVars, storeVars, shellVars, side, cli>>

NextGen == Generate

SpecGen == InitGen /\ [][NextGen]_vars

\* The texts an XML part is put together from: the placeholders, a text that
\* looks like the version placeholder, and other text.
Lookalike == <<"1", "x", "0", "y", "0", "z", "0">>
Segments == {ZeroGuid, PlaceholderVersion, Lookalike, <<"<", "v", ">">>}

XmlParts == {Concat(ss) : ss \in SeqsUpTo(Segments, MaxSegs)}

\* The ids the parser accepts.
AcceptedIds == {id \in IdStrings : isGuid(id)}

DollarAmpersand == <<"$", "&">>

\* The generator on every part, with every accepted id.
InitSubst ==
    /\ ginput \in GeneratorInputs(AcceptedIds, {V1234, V2000, PlaceholderVersion,
                                                DollarAmpersand, <<>>})
    /\ cwd = NoFiles
    /\ part \in XmlParts
    /\ gres = NoGeneration
    /\ written = <<>>
    /\ ParserIdle
    /\ StoreIdle
    /\ ShellIdle
    /\ SideloadIdle
    /\ CliIdle

SpecSubst == InitSubst /\ [][NextGen]_vars

-----------------------------------------------------------------------------
(* The registry operations, statement by statement *)

\* The most shells one call of querySideloadingRegistry creates.
MaxShells == 2

\* The registry operations: add, list and remove, with the path they are given.
RegistryCalls ==
    {[op |-> "add", path |-> p] : p \in ResolvedPaths}
    \cup {[op |-> "list", path |-> NoPath]}
    \cup {[op |-> "remove", path |-> p] : p \in ResolvedPaths \cup {NoPath}}

\* The commands an operation hands to querySideloadingRegistry.
CommandOf(op, path) ==
    CASE op = "add" -> SetItemProperty(path, path)
      [] op = "remove" -> RemoveItemProperty(path)
      [] OTHER -> GetItemProperty

\* The mutant of dispose: the shell is left running.
disposeNothing(shs, i) == shs

\* ps.dispose()
dispose(shs, i) == [shs EXCEPT ![i] = "disposed"]

\* What an operation's promise settles with when querySideloadingRegistry
\* resolves with output.
ResolutionOf(op, output) ==
    IF op = "list" THEN manifestPathsOf(output) ELSE Resolved(output)

\* An error that is not a string: what a constructor throws.
ErrorObject == "Error"

\* The catch of lines 231-239: err.indexOf of an error that is not a string
\* throws in the catch, and the promise stays pending.
RejectionOf(err) ==
    IF err = ErrorObject THEN Pending
    ELSE IF err = "NO-OFFICE-16" THEN Rejected("HostNotInstalled")
    ELSE Rejected(err)

InitShell ==
    /\ platform = "win32"
    /\ fsys = EmptyDirectories
    /\ dirs = {}
    /\ registry \in InitialRegistries
    /\ last = NoOperation
    /\ ShellIdle
    /\ ParserIdle
    /\ GeneratorIdle
    /\ SideloadIdle
    /\ CliIdle

\* addManifestToRegistry, getManifestsFromRegistry or removeManifestFromRegistry
\* is called. A remove without a path rejects at once (lines 276-280); the
\* others enter querySideloadingRegistry, which creates the first shell (line
\* 210, outside the try: a constructor that throws leaves the promise pending).
Begin(call, created) ==
    /\ query.pc \in {"idle", "done", "abandoned"}
    /\ IF call.op = "remove" /\ call.path = NoPath
       THEN /\ query' = [NoQuery EXCEPT !.pc = "done", !.op = call.op,
                                        !.res = Rejected("MissingArgument"),
                                        !.reg0 = registry]
            /\ shells' = <<>>
            /\ ps' = 0
       ELSE /\ query' = [NoQuery EXCEPT !.pc = IF created THEN "invoke1" ELSE "abandoned",
                                        !.op = call.op, !.path = call.path,
                                        !.reg0 = registry]
            /\ shells' = IF created THEN <<"running">> ELSE <<>>
            /\ ps' = IF created THEN 1 ELSE 0
    /\ UNCHANGED <<platform, fsys, dirs, registry, last, parseVars, genVars, side, cli>>

\* await ps.invoke() of the first shell (line 221). New-Item may fail: for the
\* WEF key, or for the Developer key after the WEF key was made.
InvokeEnsure(fault) ==
    /\ query.pc = "invoke1"
    /\ LET ensured == EnsureRegistryPath(registry)
       IN  CASE ensured.err # "" ->
                    /\ fault = "none"
                    /\ registry' = ensured.reg
                    /\ query' = [query EXCEPT !.pc = "catch", !.err = ensured.err]
             [] ensured.err = "" /\ fault = "wef" ->
                    /\ ~registry.wef
                    /\ registry' = registry
                    /\ query' = [query EXCEPT !.pc = "catch", !.err = "New-Item failed"]
             [] ensured.err = "" /\ fault = "developer" ->
                    /\ ~registry.developer
                    /\ registry' = [registry EXCEPT !.wef = TRUE]
                    /\ query' = [query EXCEPT !.pc = "catch", !.err = "New-Item failed"]
             [] OTHER ->
                    /\ registry' = ensured.reg
                    /\ query' = [query EXCEPT !.pc = "dispose1"]
    /\ UNCHANGED <<shells, ps, platform, fsys, dirs, last, parseVars, genVars, side, cli>>

\* ps.dispose() of the first shell (line 222)
DisposeFirst ==
    /\ query.pc = "dispose1"
    /\ shells' = dispose(shells, ps)
    /\ query' = [query EXCEPT !.pc = "shell2"]
    /\ UNCHANGED <<ps, platform, fsys, dirs, registry, last, parseVars, genVars, side, cli>>

\* ps = new shell(...) and its addCommand calls (lines 224-228): the
\* constructor may throw, and ps still holds the first shell then.
SecondShell(created) ==
    /\ query.pc = "shell2"
    /\ Len(shells) < MaxShells
    /\ IF created
       THEN /\ shells' = Append(shells, "running")
            /\ ps' = Len(shells) + 1
            /\ query' = [query EXCEPT !.pc = "invoke2"]
       ELSE /\ query' = [query EXCEPT !.pc = "catch", !.err = ErrorObject]
            /\ UNCHANGED <<shells, ps>>
    /\ UNCHANGED <<platform, fsys, dirs, registry, last, parseVars, genVars, side, cli>>

\* await ps.invoke() of the second shell (line 230): the operation's command
\* runs, or fails and leaves the key as it is.
InvokeSecond(failed) ==
    /\ query.pc = "invoke2"
    /\ LET ran == InvokeCommand(CommandOf(query.op, query.path), registry)
       IN  IF failed
           THEN /\ registry' = registry
                /\ query' = [query EXCEPT !.pc = "catch", !.err = "command failed",
                                          !.ran = TRUE]
           ELSE /\ registry' = ran.reg
                /\ query' = [query EXCEPT !.pc = "dispose2", !.output = ran.output,
                                          !.ran = TRUE]
    /\ UNCHANGED <<shells, ps, platform, fsys, dirs, last, parseVars, genVars, side, cli>>

\* ps.dispose() of the second shell (line 231)
DisposeSecond ==
    /\ query.pc = "dispose2"
    /\ shells' = dispose(shells, ps)
    /\ query' = [query EXCEPT !.pc = "resolve"]
    /\ UNCHANGED <<ps, platform, fsys, dirs, registry, last, parseVars, genVars, side, cli>>

\* resolve(output) (line 232), and what the operation makes of the output.
ResolveQuery ==
    /\ query.pc = "resolve"
    /\ query' = [query EXCEPT !.pc = "done", !.res = ResolutionOf(query.op, query.output)]
    /\ UNCHANGED <<shells, ps, platform, fsys, dirs, registry, last, parseVars, genVars,
                   side, cli>>

\* ps.dispose() of the catch (line 234)
CatchDispose ==
    /\ query.pc = "catch"
    /\ shells' = dispose(shells, ps)
    /\ query' = [query EXCEPT !.pc = "reject"]
    /\ UNCHANGED <<ps, platform, fsys, dirs, registry, last, parseVars, genVars, side, cli>>

\* The rejection of the catch (lines 235-240)
CatchReject ==
    /\ query.pc = "reject"
    /\ query' = [query EXCEPT !.res = RejectionOf(query.err),
                              !.pc = IF RejectionOf(query.err) = Pending THEN "abandoned"
                                     ELSE "done"]
    /\ UNCHANGED <<shells, ps, platform, fsys, dirs, registry, last, parseVars, genVars,
                   side, cli>>

NextShell ==
    \/ \E call \in RegistryCalls, created \in BOOLEAN : Begin(call, created)
    \/ \E fault \in {"none", "wef", "developer"} : InvokeEnsure(fault)
    \/ DisposeFirst
    \/ \E created \in BOOLEAN : SecondShell(created)
    \/ \E failed \in BOOLEAN : InvokeSecond(failed)
    \/ DisposeSecond
    \/ ResolveQuery
    \/ CatchDispose
    \/ CatchReject

SpecShell == InitShell /\ [][NextShell]_vars

-----------------------------------------------------------------------------
(* sideloadManifest, await by await *)

\* A path that is a directory.
DirectoryPath == Join("/", "p")

\* fs.existsSync(manifestPath) && fs.lstatSync(manifestPath).isFile() (line 294)
IsExistingFile(fs, path) ==
    /\ ExistsSync(fs, path) \/ path = DirectoryPath
    /\ path # DirectoryPath

\* The paths handed to sideloadManifest: a manifest, the same through a
\* symbolic link, a file that does not exist, a directory.
SideloadPaths ==
    {Join("/p", "a.xml"), Join(LinkedDirectory, "a.xml"), Join("/q", "b.xml"), DirectoryPath}

\* The documents the manifest file may hold.
SideloadDocuments ==
    {d \in Documents : /\ d.hasId => d.id \in {GuidUpper, GuidShort}
                       /\ d.hasVersion => d.version = V1234
                       /\ d.hasXsiType => d.xsiType \in {"TaskPaneApp", "ContentApp", "MailApp"}}

\* The statements of the try block, in order.
SideloadSteps == <<"check", "parse", "add", "generate", "open">>

Successor(step) ==
    CASE step = "check" -> "parse"
      [] step = "parse" -> "add"
      [] step = "add" -> "generate"
      [] step = "generate" -> "open"
      [] OTHER -> "done"

\* The mutant of Following: the statements run on after a failure, as
\* without the awaits.
FollowingAlways(step, res) == Successor(step)

\* Where sideloadManifest goes after a statement: to the next one when the
\* awaited promise resolved, to the catch (or the return of line 298) when it
\* was rejected.
Following(step, res) ==
    IF res.state = "resolved" THEN Successor(step) ELSE "done"

\* The mutant of RejectWith: the failure of a statement is not handed on.
RejectWithNothing(promise, res) == promise

\* The promise of sideloadManifest after a statement: rejected with the
\* statement's error unless it is settled.
RejectWith(promise, res) ==
    IF promise = Pending /\ res.state = "rejected" THEN res ELSE promise

Step(name, res) == [step |-> name, res |-> res]

InitSideload ==
    /\ platform \in {"win32", "darwin"}
    /\ \E d \in InitialDirectories :
          /\ fsys = (IF platform = "darwin" THEN d.fs ELSE EmptyDirectories)
          /\ dirs = (IF platform = "darwin" THEN d.dirs ELSE {})
    /\ \E r \in InitialRegistries :
          registry = (IF platform = "win32" THEN r ELSE NoRegistry)
    /\ last = NoOperation
    /\ doc \in SideloadDocuments
    /\ contents = NoContents
    /\ presult = Pending
    /\ cwd = NoFiles
    /\ part \in {TemplatePart, NoPart}
    /\ ginput = NoInput
    /\ gres = NoGeneration
    /\ written = <<>>
    /\ SideloadIdle
    /\ ShellIdle
    /\ CliIdle

\* sideloadManifest(application, manifestPath) up to its first await: the
\* path is resolved when it is an existing file, and the promise is rejected
\* otherwise (lines 294-299).
StartSideload(application, manifestPath) ==
    /\ side.pc \in {"idle", "done"}
    /\ LET found == IsExistingFile(fsys, manifestPath)
           res == IF found THEN Resolved(Realpath(manifestPath)) ELSE Rejected("NotFound")
       IN  side' = [NoSideload EXCEPT
                       !.pc = Following("check", res),
                       !.application = application,
                       !.input = manifestPath,
                       !.path = IF found THEN Realpath(manifestPath) ELSE manifestPath,
                       !.steps = <<Step("check", res)>>,
                       !.res = RejectWith(Pending, res),
                       !.fs0 = fsys, !.dirs0 = dirs, !.reg0 = registry, !.files0 = cwd]
    /\ presult' = Pending
    /\ UNCHANGED <<doc, contents, storeVars, genVars, shellVars, cli>>

\* await parseManifest(manifestPath) (line 301)
SideloadParse ==
    /\ side.pc = "parse"
    /\ LET res == parseManifest(doc)
       IN  /\ presult' = res
           /\ side' = [side EXCEPT
                          !.pc = Following("parse", res),
                          !.steps = Append(@, Step("parse", res)),
                          !.parsed = IF res.state = "resolved" THEN res.value ELSE NoParse,
                          !.res = RejectWith(@, res)]
    /\ UNCHANGED <<doc, contents, storeVars, genVars, shellVars, cli>>

\* await addManifest(application, manifestPath) (line 302)
SideloadAdd ==
    /\ side.pc = "add"
    /\ LET out == addManifest(platform, side.application, side.path, fsys, dirs, registry)
       IN  /\ fsys' = out.fs
           /\ dirs' = out.dirs
           /\ registry' = out.reg
           /\ side' = [side EXCEPT
                          !.pc = Following("add", out.res),
                          !.steps = Append(@, Step("add", out.res)),
                          !.res = RejectWith(@, out.res)]
    /\ UNCHANGED <<platform, last, parseVars, genVars, shellVars, cli>>

\* await generateTemplateFile(application, parsedType, parsedGuid,
\* parsedVersion) (line 303), as long as the working directory has a name left.
SideloadGenerate ==
    /\ side.pc = "generate"
    /\ LET out == generateTemplateFile(side.application, side.parsed.type, side.parsed.id,
                                       side.parsed.version, cwd, part)
       IN  /\ out.res.state = "resolved" => out.path \in WorkingFiles
           /\ cwd' = out.files
           /\ written' = IF out.res.state = "resolved" THEN Append(written, out.path)
                         ELSE written
           /\ side' = [side EXCEPT
                          !.pc = Following("generate", out.res),
                          !.steps = Append(@, Step("generate", out.res)),
                          !.templateFile = out.path,
                          !.res = RejectWith(@, out.res)]
    /\ UNCHANGED <<part, ginput, gres, parseVars, storeVars, shellVars, cli>>

\* opn(templateFile) and resolve() (lines 305-308)
SideloadOpen ==
    /\ side.pc = "open"
    /\ side' = [side EXCEPT
                   !.pc = "done",
                   !.steps = Append(@, Step("open", Resolved("opened"))),
                   !.opened = Append(@, side.templateFile),
                   !.res = IF @ = Pending THEN Resolved("undefined") ELSE @]
    /\ UNCHANGED <<parseVars, storeVars, genVars, shellVars, cli>>

NextSideload ==
    \/ \E a \in ApplicationInputs, p \in SideloadPaths : StartSideload(a, p)
    \/ SideloadParse
    \/ SideloadAdd
    \/ SideloadGenerate
    \/ SideloadOpen

SpecSideload == InitSideload /\ [][NextSideload]_vars

-----------------------------------------------------------------------------
(* The command line: office-toolbox.ts *)

\* sideloadManifest(application, manifestPath) as a whole, on the document d
\* the manifest file holds: the promise, the store and the working directory
\* it leaves, and the file it opened.
sideloadManifest(pf, application, manifestPath, d, fs, ds, reg, files, xmlPart) ==
    LET unchanged(res) == [res |-> res, fs |-> fs, dirs |-> ds, reg |-> reg,
                           files |-> files, opened |-> NoFilePath]
    IN  IF ~IsExistingFile(fs, manifestPath) THEN unchanged(Rejected("NotFound"))
        ELSE IF parseManifest(d).state # "resolved" THEN unchanged(parseManifest(d))
        ELSE
            LET parsed == parseManifest(d).value
                added == addManifest(pf, application, Realpath(manifestPath), fs, ds, reg)
                generated == generateTemplateFile(application, parsed.type, parsed.id,
                                                  parsed.version, files, xmlPart)
                stored(res, fl, file) ==
                    [res |-> res, fs |-> added.fs, dirs |-> added.dirs, reg |-> added.reg,
                     files |-> fl, opened |-> file]
            IN  IF added.res.state # "resolved" THEN stored(added.res, files, NoFilePath)
                ELSE IF generated.res.state # "resolved"
                THEN stored(generated.res, files, NoFilePath)
                ELSE stored(Resolved("undefined"), generated.files, generated.path)

\* validateManifest(manifestPath), with the validator's promise.
validateManifest(manifestPath, fs, verdict) ==
    IF ~ExistsSync(fs, manifestPath) THEN Rejected("NotFoundToValidate") ELSE verdict

\* getAllIdsAndManifests() as far as the store goes: getManifests for each
\* application (for none on win32); the first rejection rejects the listing.
RECURSIVE ListedFrom(_, _, _, _, _, _)
ListedFrom(apps, pf, fs, ds, reg, rows) ==
    IF apps = <<>> THEN Outcome(Resolved(rows), fs, ds, reg)
    ELSE LET out == getManifests(pf, Head(apps), fs, ds, reg)
         IN  IF out.res.state # "resolved" THEN out
             ELSE ListedFrom(Tail(apps), pf, out.fs, out.dirs, out.reg, rows \o out.res.value)

ListedManifests(pf, fs, ds, reg) ==
    ListedFrom(IF pf = "win32" THEN <<NoApplication>> ELSE Applications, pf, fs, ds, reg, <<>>)

\* A part of an error or a line of the console: a message or a path.
Message(text) == [text |-> text, path |-> NoPath]
PathPart(path) == [text |-> "", path |-> path]

\* The values the promises are rejected with: an array of parts, a string, an
\* Error object.
ArrayError(parts) == [kind |-> "array", parts |-> parts]
StringError(text) == [kind |-> "string", parts |-> <<Message(text)>>]
ObjectError(name) == [kind |-> "Error", parts |-> <<Message(name)>>]

\* The failures rejected with [message, path].
ArrayTags ==
    {"NotFound", "NotFoundToValidate", "ReadError", "MalformedXml", "OfficeAppMissing",
     "XsiTypeMissing", "IdMissing", "VersionMissing", "InvalidId", "Conflict"}

\* The failures that are exceptions of the runtime.
ObjectTags == {"TypeError", "SyntaxError", "ENOENT", "EXDEV", "EEXIST"}

ErrorValue(tag, path) ==
    IF tag \in ArrayTags THEN ArrayError(<<Message(tag), PathPart(path)>>)
    ELSE IF tag \in ObjectTags THEN ObjectError(tag)
    ELSE StringError(tag)

\* What err[0] is where err is not an array with elements: a character of a
\* string, undefined otherwise.
UndefinedPart == Message("undefined")
FirstCharacter == Message("the first character of the string")

\* The two versions of the command line.
Versions == {"unnamed/part_000", "src/office-toolbox.ts"}

Log(lines, exception) == [console |-> lines, telemetry |-> <<[exception |-> exception]>>]

\* The mutant of logRejection: the whole error goes to telemetry, its last
\* part included.
logRejectionWhole(version, err) ==
    IF err.parts = <<>> THEN Log(<<>>, UndefinedPart)
    ELSE Log(err.parts, err.parts[Len(err.parts)])

\* logRejection(err): the lines printed and the exception tracked. The later
\* version (src/office-toolbox.ts, lines 16-34) wraps a string in an Error;
\* the earlier one (unnamed/part_000, lines 503-515) tracks err[0] in both
\* branches.
logRejection(version, err) ==
    IF err.kind = "array" /\ err.parts # <<>>
    THEN Log(err.parts, err.parts[1])
    ELSE IF version = "src/office-toolbox.ts"
    THEN IF err.kind = "array" THEN Log(<<>>, UndefinedPart)
         ELSE Log(err.parts, err.parts[1])
    ELSE Log(IF err.kind = "array" THEN <<Message("")>> ELSE err.parts,
             IF err.kind = "string" THEN FirstCharacter ELSE UndefinedPart)

\* applicationProperties[application].canSideload
canSideload(application) == application \in {"word", "excel", "powerpoint"}

\* The manifest file a command is run on.
ManifestOf(type, id) ==
    [readable |-> TRUE, wellFormed |-> TRUE, hasOfficeApp |-> TRUE, officeAppIsObject |-> TRUE,
     hasAttributes |-> TRUE, hasXsiType |-> TRUE, xsiType |-> type, hasId |-> TRUE, id |-> id,
     hasVersion |-> TRUE, version |-> V1234]

CliDocuments ==
    {ManifestOf("TaskPaneApp", GuidUpper), ManifestOf("ContentApp", GuidUpper),
     ManifestOf("MailApp", GuidUpper), ManifestOf("TaskPaneApp", GuidShort)}

CliPaths == {Join("/p", "a.xml"), Join("/q", "b.xml")}

CliApplications == {"word", "outlook"}

InitCli ==
    /\ platform \in {"win32", "darwin"}
    /\ fsys = EmptyDirectories
    /\ dirs = {}
    /\ registry \in (IF platform = "win32"
                      THEN {NoRegistry, [NoRegistry EXCEPT !.office16 = TRUE]}
                      ELSE {NoRegistry})
    /\ last = NoOperation
    /\ doc \in CliDocuments
    /\ contents = NoContents
    /\ presult = Pending
    /\ cwd = NoFiles
    /\ part = TemplatePart
    /\ ginput = NoInput
    /\ gres = NoGeneration
    /\ written = <<>>
    /\ \E v \in Versions : cli = [NoCommand EXCEPT !.version = v]
    /\ SideloadIdle
    /\ ShellIdle

\* The state of the command line after a command whose operation returned
\* the promise res. An awaited rejection is caught and goes to logRejection;
\* one that is not awaited is nobody's.
Ran(command, res, path, awaited, lines) ==
    LET rejected == res.state = "rejected"
        log == IF rejected /\ awaited THEN logRejection(cli.version, ErrorValue(res.err, path))
               ELSE [console |-> lines, telemetry |-> <<>>]
    IN  [version |-> cli.version, command |-> command, failure |-> res,
         err |-> IF rejected THEN ErrorValue(res.err, path) ELSE NoCommand.err,
         console |-> log.console, telemetry |-> log.telemetry,
         unhandled |-> IF rejected /\ ~awaited THEN <<ErrorValue(res.err, path)>> ELSE <<>>]

\* list(): await util.list() in a try
CliList ==
    LET out == ListedManifests(platform, fsys, dirs, registry)
    IN  /\ registry' = out.reg
        /\ cli' = Ran("list", out.res, NoPath, TRUE, <<Message("the manifests")>>)
        /\ UNCHANGED <<platform, fsys, dirs, last, parseVars, genVars, shellVars, side>>

\* sideload(application, manifestPath), with the application and the path it
\* has after its prompts: await util.sideload(...) in a try. The later
\* version calls it only for an application that can sideload.
CliSideload(application, manifestPath) ==
    IF cli.version = "src/office-toolbox.ts" /\ ~canSideload(application)
    THEN /\ cli' = Ran("sideload", Pending, manifestPath, TRUE,
                        <<Message("Automatic sideloading is not available")>>)
         /\ UNCHANGED <<parseVars, storeVars, genVars, shellVars, side>>
    ELSE LET out == sideloadManifest(platform, application, manifestPath, doc, fsys, dirs,
                                     registry, cwd, part)
         IN  /\ out.res.state = "resolved" => out.opened \in WorkingFiles
             /\ fsys' = out.fs
             /\ dirs' = out.dirs
             /\ registry' = out.reg
             /\ cwd' = out.files
             /\ written' = IF out.res.state = "resolved" THEN Append(written, out.opened)
                           ELSE written
             /\ cli' = Ran("sideload", out.res, manifestPath, TRUE,
                            <<Message("Opening file")>>)
             /\ UNCHANGED <<platform, last, part, ginput, gres, parseVars, shellVars, side>>

\* remove(application, manifestPath), with the application and the path it has
\* after its prompts: util.remove(...) is called in a try and is not awaited.
CliRemove(application, manifestPath) ==
    LET out == removeManifest(platform,
                              IF platform = "win32" THEN NoApplication ELSE application,
                              manifestPath, fsys, dirs, registry)
    IN  /\ fsys' = out.fs
        /\ dirs' = out.dirs
        /\ registry' = out.reg
        /\ cli' = Ran("remove", out.res, manifestPath, FALSE, <<Message("Removing")>>)
        /\ UNCHANGED <<platform, last, parseVars, genVars, shellVars, side>>

\* validate(manifestPath): await util.validate(...) in a try
CliValidate(manifestPath, verdict) ==
    /\ cli' = Ran("validate", validateManifest(manifestPath, fsys, verdict), manifestPath,
                  TRUE, <<>>)
    /\ UNCHANGED <<parseVars, storeVars, genVars, shellVars, side>>

NextCli ==
    \/ CliList
    \/ \E a \in CliApplications, p \in CliPaths : CliSideload(a, p)
    \/ \E a \in CliApplications, p \in CliPaths : CliRemove(a, p)
    \/ \E p \in CliPaths, v \in {Resolved("valid"), Rejected("the validator failed")} :
          CliValidate(p, v)

SpecCli == InitCli /\ [][NextCli]_vars

-----------------------------------------------------------------------------
(* The parser's claims, under SpecParse *)

Settled(promise) == promise.state # "pending"

\* The GUID shape: 8, 4, 4, 4 and 12 hexadecimal digits, a hyphen or nothing
\* between two groups, and nothing else. h[g] is 1 for a hyphen after group g.
GuidShape(text) ==
    \E h \in [1..4 -> {0, 1}] :
        LET g2 == 9 + h[1]
            g3 == g2 + 4 + h[2]
            g4 == g3 + 4 + h[3]
            g5 == g4 + 4 + h[4]
        IN  /\ Len(text) = g5 + 11
            /\ \A k \in 1..Len(text) :
                  IF \/ (h[1] = 1 /\ k = 9)
                     \/ (h[2] = 1 /\ k = g2 + 4)
                     \/ (h[3] = 1 /\ k = g3 + 4)
                     \/ (h[4] = 1 /\ k = g4 + 4)
                  THEN text[k] = "-"
                  ELSE text[k] \in HexDigits

\* The text starts with a GUID.
StartsWithGuid(text) == \E n \in 0..Len(text) : GuidShape(SubSeq(text, 1, n))

\* The checks of the specification, in their order: the error of the first one
\* that fails, "none" when all pass.
FirstFailure(d) ==
    IF ~d.wellFormed THEN "MalformedXml"
    ELSE IF ~d.hasOfficeApp THEN "OfficeAppMissing"
    ELSE IF ~(d.officeAppIsObject /\ d.hasAttributes /\ d.hasXsiType) THEN "XsiTypeMissing"
    ELSE IF ~d.hasId THEN "IdMissing"
    ELSE IF ~d.hasVersion THEN "VersionMissing"
    ELSE IF ~GuidShape(d.id) THEN "InvalidId"
    ELSE IF d.xsiType = "MailApp" THEN "UnsupportedApplication"
    ELSE IF d.xsiType \notin {"ContentApp", "TaskPaneApp"} THEN "UnsupportedKind"
    ELSE "none"

\* C1: for every manifest document that was read, parseManifest settles with
\* the error of the first failing check of the fixed order (not an object,
\* OfficeApp missing, xsi:type missing, Id missing, Version missing, Id not a
\* GUID, MailApp, unsupported kind), and resolves when none fails. Stated for
\* the documents on whose Id the parser's test and the GUID shape agree.
C1_FirstFailingCheckWins ==
    (Settled(presult) /\ doc.readable /\ (isGuid(doc.id) <=> GuidShape(doc.id)))
    => IF FirstFailure(doc) = "none"
       THEN presult.state = "resolved"
       ELSE presult = Rejected(FirstFailure(doc))

\* The document's xsi:type is MailApp.
IsMailApp(d) == d.hasXsiType /\ d.xsiType = "MailApp"

\* C2, as claimed: every document whose xsi:type is MailApp is refused with
\* UnsupportedApplication, whatever its Id and Version.
C2_MailAppRefusedWhateverTheId ==
    (Settled(presult) /\ IsMailApp(doc)) => presult = Rejected("UnsupportedApplication")

\* C2, amended: a document whose xsi:type is MailApp, whose Id and Version
\* elements are there and whose Id starts with a GUID is refused with
\* UnsupportedApplication.
C2_MailAppRefusedAfterIdChecks ==
    (Settled(presult) /\ IsMailApp(doc) /\ doc.hasId /\ doc.hasVersion
        /\ StartsWithGuid(doc.id))
    => presult = Rejected("UnsupportedApplication")

\* A mail add-in with an Id and a Version has been refused as unsupported.
C2_Witness ==
    /\ IsMailApp(doc) /\ doc.hasId /\ doc.hasVersion
    /\ presult = Rejected("UnsupportedApplication")

\* C3: with the kind, the Id element and the Version element there, an Id that
\* has not the GUID shape is refused with InvalidId, and parseManifest resolves
\* only for an Id of exactly that shape.
C3_OnlyGuidShapedIdsPass ==
    (Settled(presult) /\ doc.hasXsiType /\ doc.hasId /\ doc.hasVersion)
    => /\ ~GuidShape(doc.id) => presult = Rejected("InvalidId")
       /\ presult.state = "resolved" => GuidShape(doc.id)

-----------------------------------------------------------------------------
(* The store's claims, under SpecStore *)

\* How often x is in the list.
Count(list, x) == Cardinality({i \in 1..Len(list) : list[i] = x})

NoDuplicates(list) == \A i, j \in 1..Len(list) : list[i] = list[j] => i = j

\* The manifest is registered for the application: the registry's Developer
\* key holds a value of its name and data; or the application's sideloading
\* directory holds, under the manifest's name, a link to the manifest's file.
Registered(pf, application, manifestPath, fs, ds, reg) ==
    IF pf = "win32"
    THEN /\ reg.developer
         /\ manifestPath \in RegistryNames
         /\ reg.values[manifestPath] = manifestPath
    ELSE /\ sideloadingDirectory(application) \in ds
         /\ ExistsSync(fs, manifestPath)
         /\ fs[Join(sideloadingDirectory(application), Basename(manifestPath))]
                = StatOf(fs, manifestPath)

\* getManifests(application) in the current state.
Listing(application) == getManifests(platform, application, fsys, dirs, registry).res

\* C4: after add(application, path) succeeded for a manifest file that exists,
\* the list of that application holds the manifest's path exactly once.
C4_AddedManifestIsListedOnce ==
    (last.op = "add" /\ last.res.state = "resolved" /\ ExistsSync(last.fs0, last.path))
    => /\ Listing(last.application).state = "resolved"
       /\ Count(Listing(last.application).value, last.path) = 1

\* C5: remove(application, path) right after add(application, path) succeeded,
\* for a manifest file that exists outside the sideloading directories, removes the
\* registration: the manifest is not registered and not listed any more, and
\* its file is still there.
C5_RemoveUndoesAdd ==
    (last.op = "remove" /\ last.afterAdd /\ last.path.dir \in SourceDirectories
        /\ ExistsSync(last.fs0, last.path))
    => /\ ~Registered(platform, last.application, last.path, fsys, dirs, registry)
       /\ Listing(last.application).state = "resolved"
       /\ Count(Listing(last.application).value, last.path) = 0
       /\ ExistsSync(fsys, last.path)

\* Before the add, the sideloading directory held under the manifest's name
\* another file than the manifest: the device or the inode differs.
NameTaken(application, manifestPath, fs) ==
    /\ sideloadingDirectory(application) # Undefined
    /\ ExistsSync(fs, manifestPath)
    /\ LET entry == fs[Join(sideloadingDirectory(application), Basename(manifestPath))]
       IN  /\ entry # NoFile
           /\ (entry.dev # StatOf(fs, manifestPath).dev
               \/ entry.ino # StatOf(fs, manifestPath).ino)

\* C6: on the other platforms, an add whose name is taken by another file fails
\* with Conflict and leaves the directories as they were, and an add that
\* succeeds has registered the manifest.
C6_TakenNameIsAConflict ==
    (platform = "darwin" /\ last.op = "add")
    => /\ NameTaken(last.application, last.path, last.fs0)
            => (last.res = Rejected("Conflict") /\ fsys = last.fs0)
       /\ last.res.state = "resolved"
            => Registered(platform, last.application, last.path, fsys, dirs, registry)

\* C7: no list holds a path twice, and the add of a manifest that is registered
\* already succeeds and leaves the entries of the store as they were.
C7_OneEntryPerManifest ==
    /\ \A a \in ApplicationInputs :
          Listing(a).state = "resolved" => NoDuplicates(Listing(a).value)
    /\ (/\ last.op = "add"
        /\ Registered(platform, last.application, last.path,
                      last.fs0, last.dirs0, last.reg0))
       => /\ last.res.state = "resolved"
          /\ fsys = last.fs0
          /\ registry.values = last.reg0.values

\* A manifest that was registered has been added again, in a directory.
C7_Witness ==
    /\ platform = "darwin"
    /\ last.op = "add"
    /\ last.path.dir \in SourceDirectories
    /\ Registered(platform, last.application, last.path, last.fs0, last.dirs0, last.reg0)
    /\ last.res.state = "resolved"

-----------------------------------------------------------------------------
(* The generator's claims, under SpecGen and SpecSubst *)

\* The names generateTemplateFile tries, in order: Name.ext, Name0.ext,
\* Name1.ext, ...
Candidate(name, k) == IF k = 0 THEN FileOf(name, NoNumber) ELSE FileOf(name, k - 1)

ExistingFiles(files) == {f \in DOMAIN files : files[f] # NoContent}

\* C8: a call that resolves has written the first name of the sequence that
\* no file had, after no more turns of the loop than there were files, and has
\* left every other file as it was; the files written by the calls so far are
\* all different and each still holds what was generated into it.
C8_NeverOverwrites ==
    /\ gres.res.state = "resolved" =>
          LET name == templateName(ginput.application, ginput.type)
          IN  /\ gres.res.value = gres.path
              /\ ~FileExists(gres.files0, gres.path)
              /\ gres.i <= Cardinality(ExistingFiles(gres.files0))
              /\ gres.path = Candidate(name, gres.i)
              /\ \A k \in 0..(gres.i - 1) : FileExists(gres.files0, Candidate(name, k))
              /\ \A f \in WorkingFiles \ {gres.path} : cwd[f] = gres.files0[f]
    /\ NoDuplicates(written)
    /\ \A k \in 1..Len(written) :
          cwd[written[k]] = ReplacePlaceholders(part, ginput.id, ginput.version)

\* Two calls in a row have written two files, in a directory where the user
\* had a file of the template's name.
C8_Witness ==
    /\ Len(written) = 2
    /\ gres.i > 0
    /\ \E f \in WorkingFiles : cwd[f] = UserContent

\* Neither the id nor the version holds a placeholder or a dollar sign.
PlainInput(input) ==
    /\ Occurrences(input.id, ZeroGuid) = {}
    /\ Occurrences(input.version, PlaceholderVersion) = {}
    /\ \A k \in 1..Len(input.version) : input.version[k] # "$"
    /\ input.version # <<>>

\* C9: for an id and a version that hold no placeholder themselves, the XML
\* part that was written holds neither placeholder, holds the id as often as
\* the template's part held the placeholder GUID, and the version as often as
\* it held the placeholder version.
C9_PlaceholdersBecomeIdAndVersion ==
    (gres.res.state = "resolved" /\ PlainInput(ginput))
    => LET xml == cwd[gres.path]
       IN  /\ Occurrences(xml, ZeroGuid) = {}
           /\ Occurrences(xml, PlaceholderVersion) = {}
           /\ Cardinality(Occurrences(xml, ginput.id))
                 >= Cardinality(Occurrences(part, ZeroGuid))
           /\ Cardinality(Occurrences(xml, ginput.version))
                 >= Cardinality(Occurrences(part, PlaceholderVersion))

\* C10: a part that holds no literal occurrence of either placeholder is
\* written as it is.
C10_OtherTextIsUnchanged ==
    (/\ gres.res.state = "resolved"
     /\ Occurrences(part, ZeroGuid) = {}
     /\ Occurrences(part, PlaceholderVersion) = {})
    => cwd[gres.path] = part

-----------------------------------------------------------------------------
(* The registry's claims, under SpecShell *)

AllDisposed == \A i \in DOMAIN shells : shells[i] = "disposed"

\* C11: when a call of querySideloadingRegistry has ended, with its promise
\* resolved, rejected or abandoned, every shell it created has been disposed:
\* after a success, after a failure of the first invocation, after a failure
\* to create the second shell and after a failure of the command.
C11_ShellsDisposedOnEveryPath ==
    (Settled(query.res) \/ query.pc \in {"resolve", "reject", "done", "abandoned"})
        => AllDisposed

\* The command failed: two shells were created and the promise is rejected.
C11_Witness ==
    /\ query.res = Rejected("command failed")
    /\ Len(shells) = MaxShells

\* The call went into querySideloadingRegistry.
Queried == query.op \in {"add", "list"} \/ (query.op = "remove" /\ query.path # NoPath)

RootKeyAbsent == query.op # "none" /\ ~query.reg0.office16

\* Nothing of the registry has changed and no command of the operation ran.
NothingDone == registry = query.reg0 /\ ~query.ran

\* C12 as stated: add, list and remove, whatever their arguments, fail with
\* HostNotInstalled when the Office 16.0 key is absent.
C12_AllFailWithHostNotInstalled ==
    RootKeyAbsent =>
        /\ NothingDone
        /\ query.pc = "done" => query.res = Rejected("HostNotInstalled")

\* C12, amended: add, list and remove with a path fail with HostNotInstalled
\* when the Office 16.0 key is absent, make no key and run no command; a
\* remove without a path makes no key and runs no command either, and fails
\* with MissingArgument. When the key is there, the WEF and WEF\Developer keys
\* exist whenever the operation's command is about to run or has run.
C12_HostNotInstalledWithoutRootKey ==
    /\ RootKeyAbsent =>
          /\ NothingDone
          /\ query.pc = "done" =>
                query.res = IF Queried THEN Rejected("HostNotInstalled")
                            ELSE Rejected("MissingArgument")
    /\ (query.pc = "invoke2" \/ query.ran) =>
          /\ registry.office16
          /\ registry.wef
          /\ registry.developer

\* An add without the Office 16.0 key has failed with HostNotInstalled.
C12_Witness ==
    /\ RootKeyAbsent
    /\ query.op = "add"
    /\ query.res = Rejected("HostNotInstalled")

-----------------------------------------------------------------------------
(* The registry store's claims, under SpecStore *)

OnRegistry == platform = "win32" /\ last.reg0.office16

\* The values of the Developer key whose data is their name, in any case of
\* the letters.
SelfNamed(values) ==
    {n \in RegistryNames : values[n] # NoValue /\ ToLowerCase(values[n]) = ToLowerCase(n)}

HasValues(values) == \E n \in RegistryNames : values[n] # NoValue

\* C13: the registry's list resolves with the names of the values of the
\* Developer key whose data equals their name without regard to case, each
\* once and no other name; a key without values gives the empty list, not a
\* failure.
C13_RegistryListIsTheSelfNamedValues ==
    (OnRegistry /\ last.op = "list") =>
        /\ last.res.state = "resolved"
        /\ {last.res.value[i] : i \in DOMAIN last.res.value} = SelfNamed(last.reg0.values)
        /\ NoDuplicates(last.res.value)
        /\ ~HasValues(last.reg0.values) => last.res.value = <<>>

\* A list that kept a manifest and left out a value of another program.
C13_Witness ==
    /\ OnRegistry
    /\ last.op = "list"
    /\ last.res.state = "resolved"
    /\ Len(last.res.value) > 0
    /\ last.reg0.values[UserValueName] = OtherData

\* The path removeManifest hands on: resolved when its file exists.
Target == IF ExistsSync(last.fs0, last.path) THEN Realpath(last.path) ELSE last.path

\* C14: the registry's remove without a path fails with MissingArgument and
\* leaves the registry, its keys included, as it was. With a path, and with
\* Office 16.0 in the registry, it succeeds whether the value is there or not
\* (so also when it repeats a remove); afterwards the value is absent and
\* every other value is as before.
C14_RegistryRemoveIsIdempotent ==
    (platform = "win32" /\ last.op = "remove") =>
        /\ last.path = NoPath =>
              /\ last.res = Rejected("MissingArgument")
              /\ registry = last.reg0
        /\ (last.path # NoPath /\ last.reg0.office16) =>
              /\ last.res.state = "resolved"
              /\ Target \in RegistryNames => registry.values[Target] = NoValue
              /\ \A n \in RegistryNames \ {Target} :
                    registry.values[n] = last.reg0.values[n]

\* A remove of a path has succeeded for the second time in a row, next to a
\* value of another program.
C14_Witness ==
    /\ platform = "win32"
    /\ last.op = "remove"
    /\ last.again
    /\ last.res.state = "resolved"
    /\ last.path = Join("/p", "a.xml")
    /\ registry.values[UserValueName] = OtherData

-----------------------------------------------------------------------------
(* sideloadManifest's claims, under SpecSideload *)

\* The store, the working directory and the opened files are as they were
\* when sideloadManifest was called.
NothingTouched ==
    /\ fsys = side.fs0
    /\ dirs = side.dirs0
    /\ registry = side.reg0
    /\ cwd = side.files0
    /\ side.opened = <<>>

StepResult(i) == side.steps[i].res

\* C15: the statements of sideload run in the order check, parse, add,
\* generate, open, and each one only after the one before it succeeded. When
\* the path is not an existing file the promise is rejected with NotFound,
\* and when the parser rejects the manifest with the parser's error; in both
\* cases the store and the working directory stay as they were and nothing is
\* opened. A file that is opened is the one generate resolved with.
C15_SideloadStepsInOrder ==
    /\ \A i \in DOMAIN side.steps :
          /\ i <= Len(SideloadSteps)
          /\ side.steps[i].step = SideloadSteps[i]
          /\ i > 1 => StepResult(i - 1).state = "resolved"
    /\ (side.pc # "idle" /\ ~IsExistingFile(side.fs0, side.input)) =>
          /\ side.res = Rejected("NotFound")
          /\ NothingTouched
    /\ (side.pc # "idle" /\ parseManifest(doc).state = "rejected") =>
          /\ NothingTouched
          /\ (side.pc = "done" /\ IsExistingFile(side.fs0, side.input)) =>
                side.res = parseManifest(doc)
    /\ \A k \in DOMAIN side.opened :
          /\ k = 1
          /\ Len(side.steps) = Len(SideloadSteps)
          /\ StepResult(4) = Resolved(side.opened[k])
          /\ FileExists(cwd, side.opened[k])

\* A sideload has run all its statements and opened the file it generated.
C15_Witness ==
    /\ side.pc = "done"
    /\ side.res.state = "resolved"
    /\ Len(side.steps) = Len(SideloadSteps)
    /\ Len(side.opened) = 1

AddThenGenerateFailed ==
    /\ side.pc = "done"
    /\ Len(side.steps) = 4
    /\ StepResult(3).state = "resolved"
    /\ StepResult(4).state = "rejected"

\* C20: when the add of a sideload succeeded and its generate failed, the
\* promise of sideload is rejected with generate's error and the store is as
\* add left it: the manifest is registered (unless add found its name taken
\* and made no entry), nothing is written and nothing is opened.
C20_NoRollbackAfterGenerateFails ==
    AddThenGenerateFailed =>
        LET added == addManifest(platform, side.application, side.path,
                                 side.fs0, side.dirs0, side.reg0)
        IN  /\ side.res = StepResult(4)
            /\ fsys = added.fs
            /\ dirs = added.dirs
            /\ registry = added.reg
            /\ cwd = side.files0
            /\ side.opened = <<>>
            /\ (platform = "win32" \/ ~NameTaken(side.application, side.path, side.fs0))
                  => Registered(platform, side.application, side.path, fsys, dirs, registry)

\* A manifest that was not registered is registered after a sideload whose
\* generate failed with UnsupportedCombination.
C20_Witness ==
    /\ AddThenGenerateFailed
    /\ side.res = Rejected("UnsupportedCombination")
    /\ ~Registered(platform, side.application, side.path, side.fs0, side.dirs0, side.reg0)
    /\ Registered(platform, side.application, side.path, fsys, dirs, registry)

-----------------------------------------------------------------------------
(* The command line's claims, under SpecCli *)

Failed == cli.failure.state = "rejected"

\* The failure was printed and tracked by logRejection.
Logged ==
    /\ cli.console # <<>>
    /\ Len(cli.telemetry) = 1
    /\ cli.unhandled = <<>>

\* C16: whenever the operation a command of the command line called has
\* failed, the failure has gone through logRejection: it is printed, it is
\* tracked, and it is not an unhandled rejection. This holds for list,
\* sideload, validate and remove.
C16_EveryFailureIsLogged == Failed => Logged

\* The multi-part errors that begin as the error of the last command does.
SharingFirstPart ==
    {e \in {ErrorValue(tag, p) : tag \in ArrayTags, p \in RealPaths} :
        e.parts[1] = cli.err.parts[1]}

\* C17: when logRejection has handled a multi-part error, the exception it
\* tracked is the first part of the error, and it is what logRejection tracks
\* for every multi-part error with that first part, whatever the later parts
\* (the manifest's path); every part of the error is printed.
C17_TelemetryIsTheFirstPart ==
    (Failed /\ Logged /\ cli.err.kind = "array") =>
        /\ cli.telemetry = <<[exception |-> cli.err.parts[1]]>>
        /\ cli.console = cli.err.parts
        /\ \A e \in SharingFirstPart :
              /\ logRejection(cli.version, e).telemetry = cli.telemetry
              /\ logRejection(cli.version, e).console = e.parts

\* A multi-part error with a manifest's path has been printed and tracked,
\* and there are errors that differ from it in the path alone.
C17_Witness ==
    /\ Failed
    /\ Logged
    /\ cli.err.kind = "array"
    /\ cli.err.parts[2] = PathPart(Join("/q", "b.xml"))
    /\ Cardinality(SharingFirstPart) > 1

-----------------------------------------------------------------------------
(* The directory store's claim on remove, under SpecLinks *)

\* The entries of all the sideloading directories before the last operation.
EntriesBefore ==
    {e \in RealPaths : /\ e.dir \in SideloadingDirectories
                       /\ e.dir \in last.dirs0
                       /\ last.fs0[e] # NoFile}

\* Those whose real path is the path to remove.
MatchingBefore ==
    {e \in EntriesBefore : ~Dangling(last.fs0, e) /\ Realpath(e) = Target}

\* C18: a remove without an application on the directory store, when no
\* entry of any sideloading directory has the resolved path as its real path,
\* fails with NothingRemoved and leaves every file where it is; when entries
\* match, the entries that are gone afterwards are the matching ones, all of
\* them, and no other file is unlinked.
C18_RemoveUnlinksTheMatchingEntries ==
    (platform = "darwin" /\ last.op = "remove" /\ last.application = NoApplication) =>
        /\ MatchingBefore = {} =>
              /\ last.res = Rejected("NothingRemoved")
              /\ fsys = last.fs0
        /\ MatchingBefore # {} =>
              \A q \in RealPaths :
                  (last.fs0[q] # NoFile /\ fsys[q] = NoFile) <=> q \in MatchingBefore

-----------------------------------------------------------------------------
(* The generator's claim on its failures, under SpecGen *)

\* The combinations of application and kind that have a template.
Configured(application, type) ==
    \/ application = "word" /\ type = "TaskPaneApp"
    \/ application \in {"excel", "powerpoint"} /\ type \in {"TaskPaneApp", "ContentApp"}

Called == gres # NoGeneration

\* C19: a call of generateTemplateFile with an application and a kind that are
\* not a configured combination is rejected with UnsupportedCombination, and
\* a call with a template that lacks the XML part is rejected too; in both
\* cases the working directory is as it was and no file has been written.
C19_UnsupportedCombinationWritesNothing ==
    Called =>
        /\ ~Configured(ginput.application, ginput.type) =>
              /\ gres.res = Rejected("UnsupportedCombination")
              /\ cwd = gres.files0
              /\ written = <<>>
        /\ part = NoPart =>
              /\ gres.res.state = "rejected"
              /\ cwd = gres.files0
              /\ written = <<>>

\* A content add-in for word has been refused.
C19_Witness ==
    /\ Called
    /\ ginput.application = "word"
    /\ ginput.type = "ContentApp"
    /\ gres.res = Rejected("UnsupportedCombination")

-----------------------------------------------------------------------------
(* The settlement of remove, under SpecStore.  last.res is the promise once
   the executor of the call has run to its end: nothing is left that could
   settle it later. *)

EntryRemoved == last.op = "remove" /\ fsys # last.fs0

\* C21: the promise of every call of remove is settled: on the directory store
\* it is resolved when an entry was removed and rejected when none was, and on
\* the registry it is resolved or rejected; it is never left pending.
C21_RemoveSettles ==
    last.op = "remove" =>
        /\ last.res.state \in {"resolved", "rejected"}
        /\ platform # "win32" =>
              (last.res.state = "resolved" <=> EntryRemoved)

-----------------------------------------------------------------------------
(* The full listing: util.list *)

\* null, which getInfoForManifests pushes for a manifest parseManifest
\* rejects, and undefined, which ids[i] is beyond the end of ids.
NullId == <<"null">>
UndefinedId == <<"undefined">>

\* What fs.readFile gets at a path: the document of the file there, and a
\* failure where there is no file.
DocumentAt(fs, cont, manifestPath) ==
    IF StatOf(fs, manifestPath) \in DOMAIN cont THEN cont[StatOf(fs, manifestPath)]
    ELSE NoDocument

\* The mutant of PushedIds: nothing is pushed for a manifest that
\* parseManifest rejects.
PushedIdsSkipping(parsed) ==
    IF \E i \in 1..Len(parsed) : parsed[i].state = "pending" THEN Pending
    ELSE Resolved(SelectSeq([i \in 1..Len(parsed) |->
                                IF parsed[i].state = "resolved" THEN parsed[i].value.id
                                ELSE NullId],
                            LAMBDA id : id # NullId))

\* The loop of getInfoForManifests (lines 433-442) on the promises of
\* parseManifest: the id of each manifest is pushed, and null for one that
\* parseManifest rejects. An await of a promise that never settles leaves
\* the promise pending.
PushedIds(parsed) ==
    IF \E i \in 1..Len(parsed) : parsed[i].state = "pending" THEN Pending
    ELSE Resolved([i \in 1..Len(parsed) |->
                      IF parsed[i].state = "resolved" THEN parsed[i].value.id
                      ELSE NullId])

\* getInfoForManifests(manifestPaths)
getInfoForManifests(manifestPaths, fs, cont) ==
    PushedIds([i \in 1..Len(manifestPaths) |->
                  parseManifest(DocumentAt(fs, cont, manifestPaths[i]))])

\* Lines 363-370 of getIdsAndManifests: a pair of ids[i] and manifests[i] for
\* every i below manifests.length.
IdsAndManifests(manifests, ids) ==
    IF ids.state # "resolved" THEN ids
    ELSE Resolved([i \in 1..Len(manifests) |->
                      [id |-> IF i <= Len(ids.value) THEN ids.value[i] ELSE UndefinedId,
                       manifest |-> manifests[i]]])

\* What getIdsAndManifests makes of the manifests getManifests settled with.
WithIds(out, cont) ==
    IF out.res.state # "resolved" THEN out
    ELSE Outcome(IdsAndManifests(out.res.value,
                                 getInfoForManifests(out.res.value, out.fs, cont)),
                 out.fs, out.dirs, out.reg)

\* getIdsAndManifests(application)
getIdsAndManifests(pf, application, fs, ds, reg, cont) ==
    WithIds(getManifests(pf, application, fs, ds, reg), cont)

\* The loop of getAllIdsAndManifests (lines 329-334) on what
\* getIdsAndManifests settled with for each application: a row of id,
\* manifest and application for every pair; the first await that fails
\* rejects the listing.
AllIdsAndManifests(applications, listed) ==
    IF \E k \in 1..Len(listed) : listed[k].res.state # "resolved"
    THEN listed[CHOOSE k \in 1..Len(listed) :
                    /\ listed[k].res.state # "resolved"
                    /\ \A j \in 1..(k - 1) : listed[j].res.state = "resolved"]
    ELSE Outcome(Resolved(Concat([k \in 1..Len(listed) |->
                     [i \in 1..Len(listed[k].res.value) |->
                         [id |-> listed[k].res.value[i].id,
                          manifest |-> listed[k].res.value[i].manifest,
                          application |-> applications[k]]]])),
                 listed[Len(listed)].fs, listed[Len(listed)].dirs, listed[Len(listed)].reg)

\* Lines 317-323: [null] on win32 and every application elsewhere.
ListedApplications(pf) == IF pf = "win32" THEN <<NoApplication>> ELSE Applications

\* getAllIdsAndManifests(). A listing of a sideloading directory leaves the
\* store as it is, so that every application is listed in the state of the
\* call.
getAllIdsAndManifests(pf, fs, ds, reg, cont) ==
    AllIdsAndManifests(ListedApplications(pf),
                       [k \in 1..Len(ListedApplications(pf)) |->
                           getIdsAndManifests(pf, ListedApplications(pf)[k], fs, ds, reg, cont)])

\* The documents of the manifest files of a listing: a task pane add-in with
\* the id of its file, or a text that is not XML.
MalformedDocument == [NoDocument EXCEPT !.readable = TRUE]

IdOfFile(f) ==
    CASE f = SourceFiles[Join("/p", "a.xml")] -> GuidUpper
      [] f = SourceFiles[Join("/p", "b.xml")] -> GuidLower
      [] f = SourceFiles[Join("/q", "a.xml")] -> GuidNoHyphens
      [] f = CopiedFile -> GuidWithOne
      [] OTHER -> ZeroGuid

\* The files whose document a run chooses; the others hold a manifest.
ChosenFiles ==
    {SourceFiles[Join("/p", "a.xml")], SourceFiles[Join("/p", "b.xml")], CopiedFile}

ListContents ==
    {[f \in ManifestFiles |->
        IF f \in bad THEN MalformedDocument ELSE ManifestOf("TaskPaneApp", IdOfFile(f))] :
     bad \in SUBSET ChosenFiles}

\* The manifests that are added in a run of the listing.
ListPaths == {Join("/p", "a.xml"), Join("/p", "b.xml"), Join("/q", "a.xml"), Join("/q", "b.xml")}
ListApplications == {"word", "excel"}

InitList ==
    /\ platform \in {"win32", "darwin"}
    /\ \E d \in InitialDirectories :
          /\ fsys = (IF platform = "darwin" THEN d.fs ELSE EmptyDirectories)
          /\ dirs = (IF platform = "darwin" THEN d.dirs ELSE {})
    /\ \E r \in InitialRegistries :
          registry = (IF platform = "win32" THEN r ELSE NoRegistry)
    /\ last = NoOperation
    /\ doc = NoDocument
    /\ presult = Pending
    /\ contents \in ListContents
    /\ GeneratorIdle
    /\ ShellIdle
    /\ SideloadIdle
    /\ CliIdle

\* list(): getAllIdsAndManifests()
ListAll ==
    LET out == getAllIdsAndManifests(platform, fsys, dirs, registry, contents)
    IN  /\ fsys' = out.fs
        /\ dirs' = out.dirs
        /\ registry' = out.reg
        /\ last' = Operation("listAll", NoApplication, NoPath, out, FALSE)
        /\ UNCHANGED <<platform, parseVars, genVars, shellVars, side, cli>>

NextList ==
    \/ \E a \in ListApplications, p \in ListPaths : Add(a, p)
    \/ ListAll

SpecList == InitList /\ [][NextList]_vars

-----------------------------------------------------------------------------
(* The full listing's claim, under SpecList *)

\* The registered entries: the entries of the sideloading directories that
\* are not junk, and on win32 the values of the Developer key that are named
\* as their data.
RegisteredEntries ==
    IF platform = "win32"
    THEN {n \in RegistryNames \ {PSChildName} :
            /\ registry.values[n] # NoValue
            /\ ToLowerCase(registry.values[n]) = ToLowerCase(n)}
    ELSE {e \in RealPaths :
            /\ e.dir \in SideloadingDirectories \cap dirs
            /\ fsys[e] # NoFile
            /\ NotJunk(e.name)}

\* The application whose sideloading directory holds an entry; none on win32.
OwnerOf(e) ==
    IF platform = "win32" THEN NoApplication
    ELSE CHOOSE a \in ApplicationKeys : sideloadingDirectory(a) = e.dir

\* The id a row of a manifest file is to show: the manifest's, and null for
\* a file that is not there or is not a manifest the parser accepts.
IdIn(manifestPath) ==
    LET d == DocumentAt(fsys, contents, manifestPath)
    IN  IF parseManifest(d).state = "resolved" THEN d.id ELSE NullId

Rows == last.res.value

====
